---- MODULE Spec2Model ----
(***************************************************************************)
(* Model of the Manifold ETL ingestion core:                               *)
(*   - ManifoldClient._request, the retrying HTTP call                     *)
(*       (manifold/etl/src/utils/manifold.py and                           *)
(*        manifold_etl/src/utils/manifold.py, the same loop);              *)
(*   - _fetch_bet_pages / fetch_all_bet_payloads, the cursor paginator     *)
(*       (manifold/etl/src/extract/bets.py);                               *)
(*   - the pending-batches loop of run_bets_stage, the bisecting writer    *)
(*       (manifold_etl/src/main.py);                                       *)
(*   - RateLimiter.wait (manifold/etl/src/utils/rate_limit.py);            *)
(*   - quick_check, the threshold gate, and process_bet_chunk over         *)
(*       _process_users, the chunked harvester                             *)
(*       (manifold/etl/src/extract/bets.py);                               *)
(*   - PostgresLoader.stream_user_chunks, the resumable subject stream,    *)
(*       and PostgresLoader.upsert_clean, the overwriting write            *)
(*       (manifold_etl/src/load/postgres.py);                              *)
(*   - run_users_stage over stream_users, and run_bets_stage chunk by      *)
(*       chunk (manifold_etl/src/main.py,                                  *)
(*       manifold/etl/src/extract/users.py).                               *)
(* Each component has its own specification; the variables of the other    *)
(* components rest at their idle values.                                   *)
(***************************************************************************)
EXTENDS Integers, Sequences, FiniteSets, TLC

VARIABLES
    \* ---- ManifoldClient._request ----
    max_retries,    \* self._max_retries
    attempt,        \* loop variable of `for attempt in range(1, max_retries + 1)`
    pc,             \* "for" | "returned" | "raised"
    log,            \* one entry per HTTP attempt: what came back, what time.sleep got
    response,       \* the response handed to the caller
    error,          \* the exception that left _request
    has_limiter,    \* the client holds a RateLimiter (manifold/etl) or none (manifold_etl)
    events,         \* the rate-limiter acquisitions and HTTP requests, in order
    get_json,       \* how the get_json call around _request has ended
    \* ---- _fetch_bet_pages / fetch_all_bet_payloads ----
    total,          \* records the endpoint holds for the subject
    LIMIT,          \* config.LIMIT, the page size
    before,         \* the cursor
    pages,          \* the pages yielded so far
    payloads,       \* fetch_all_bet_payloads' accumulator
    calls,          \* the params of every get_json call made
    ppc,            \* "while" | "done"
    page_error,     \* a get_json call of this pagination raised
    \* ---- run_bets_stage, pending-batches loop ----
    clean_records,  \* the chunk's normalized records
    bad,            \* records the store rejects with ProgrammingError
    max_records_per_upsert,
    pending_batches,
    bets_clean,     \* ids persisted in table bets_clean
    dropped,        \* records logged and skipped
    write_log,      \* every batch handed to loader.upsert_clean
    bets_upserted_this_batch,
    failed_bets_this_batch,
    wpc,            \* "while" | "done"
    \* ---- RateLimiter.wait ----
    min_interval,   \* self._min_interval, in clock ticks
    clock,          \* time.monotonic()
    lock,           \* self._lock: the thread that holds it, or NoThread
    last_request,   \* self._last_request
    waiter,         \* per thread: where it is in wait(), its `now` and `sleep_for`
    grants,         \* the acquisitions granted, in the order they were recorded
    \* ---- quick_check ----
    threshold,      \* the threshold argument
    answer,         \* what get_json does with the call: the fault it raises, the body's shape
    quick_check,    \* how the call has ended, and what it returned
    \* ---- process_bet_chunk / _process_users ----
    user_list,      \* the subjects of the chunk
    endpoint,       \* per subject: what the endpoint holds and how it answers
    worker_count,   \* the worker_count argument
    futures,        \* the _process_users runs: sub-chunk, position, accumulators
    requests,       \* per subject: the get_json calls made for it, in order
    harvest,        \* process_bet_chunk's payloads and processed_users
    hpc,            \* "call" | "running" | "returned" | "raised"
    \* ---- _fetch_bet_pages, one generator per subject, run by concurrent workers ----
    pagers,         \* per subject: the generator's cursor, position, pages and calls
    \* ---- PostgresLoader.stream_user_chunks ----
    users_clean,    \* the table: id -> username
    chunk_size,
    start_username, \* 0 stands for None
    result_rows,    \* `result`: the rows of effective_stmt that were not read yet
    batch,
    chunks,         \* the chunks yielded so far
    spc,            \* "call" | "for" | "done" | "raised"
    \* ---- PostgresLoader.upsert_clean ----
    table_rows,     \* the table: id -> the row's other columns, NoRow when absent
    upsert_log,     \* one entry per call: the records, the table before, the outcome
    \* ---- run_users_stage ----
    limit,          \* config.USER_LIMIT; NoLimit stands for None
    user_chunks,    \* what _chunked(stream_users(...), chunk_size) yields, in order
    total_users,    \* `total`
    handed,         \* every list of users prepared and handed to the loader
    upc,            \* "for" | "done"
    \* ---- run_bets_stage, chunk by chunk ----
    stage_chunks,   \* per chunk of the subject stream: the failure met in it
    chunks_done,    \* iterations of the for loop that ran to their end
    stage_error,    \* the exception that left run_bets_stage
    bpc             \* "for" | "completed" | "raised"

clientVars == <<max_retries, attempt, pc, log, response, error,
                has_limiter, events, get_json>>
pagerVars  == <<total, LIMIT, before, pages, payloads, calls, ppc, page_error>>
writerVars == <<clean_records, bad, max_records_per_upsert, pending_batches,
                bets_clean, dropped, write_log, bets_upserted_this_batch,
                failed_bets_this_batch, wpc>>
limiterVars == <<min_interval, clock, lock, last_request, waiter, grants>>
gateVars == <<threshold, answer, quick_check>>
harvestVars == <<user_list, endpoint, worker_count, futures, requests, harvest, hpc>>
cursorVars == <<pagers>>
streamVars == <<users_clean, chunk_size, start_username, result_rows, batch, chunks, spc>>
storeVars == <<table_rows, upsert_log>>
usersVars == <<limit, user_chunks, total_users, handed, upc>>
stageVars == <<stage_chunks, chunks_done, stage_error, bpc>>
vars == <<clientVars, pagerVars, writerVars, limiterVars, gateVars, harvestVars, cursorVars, streamVars, storeVars, usersVars, stageVars>>

\* what the steps of one component leave alone
othersOfClient == <<pagerVars, writerVars, limiterVars, gateVars, harvestVars, cursorVars, streamVars, storeVars, usersVars, stageVars>>
othersOfPager == <<clientVars, writerVars, limiterVars, gateVars, harvestVars, cursorVars, streamVars, storeVars, usersVars, stageVars>>
othersOfWriter == <<clientVars, pagerVars, limiterVars, gateVars, harvestVars, cursorVars, streamVars, storeVars, usersVars, stageVars>>
othersOfLimiter == <<clientVars, pagerVars, writerVars, gateVars, harvestVars, cursorVars, streamVars, storeVars, usersVars, stageVars>>
othersOfGate == <<clientVars, writerVars, limiterVars, harvestVars, cursorVars, streamVars, storeVars, usersVars, stageVars>>
othersOfCursors == <<clientVars, pagerVars, writerVars, limiterVars, gateVars, harvestVars, streamVars, storeVars, usersVars, stageVars>>
othersOfStream == <<clientVars, pagerVars, writerVars, limiterVars, gateVars, harvestVars, cursorVars, storeVars, usersVars, stageVars>>
othersOfStore == <<clientVars, pagerVars, writerVars, limiterVars, gateVars, harvestVars, cursorVars, streamVars, usersVars, stageVars>>
othersOfUsers == <<clientVars, pagerVars, writerVars, limiterVars, gateVars, harvestVars, cursorVars, streamVars, storeVars, stageVars>>
othersOfStage == <<clientVars, pagerVars, writerVars, limiterVars, gateVars, harvestVars, cursorVars, streamVars, storeVars, usersVars>>
othersOfHarvest == <<clientVars, pagerVars, writerVars, limiterVars, gateVars, cursorVars, streamVars, storeVars, usersVars, stageVars>>

(***************************************************************************)
(* Bounds of the model.                                                    *)
(***************************************************************************)
MaxRetries == 5
MaxTotal == 7
MaxPage == 4
MaxRecords == 10
MaxRetriesGetJson == 3
MaxClock == 6
MaxInterval == 2
MaxGrants == 3
MaxCount == 52
MaxSubjects == 4
MaxChain == 4
MaxUsers == 4
MaxLabel == 5
MaxChunkSize == 3
MaxCounted == 3
MaxUpserts == 2
MaxStreamed == 5
MaxLimit == 6
MaxStageChunks == 3

Last(s) == s[Len(s)]

(***************************************************************************)
(* Rationals <<numerator, denominator>> stand for Python floats: the       *)
(* sleeps are powers of backoff_factor and parsed Retry-After values.      *)
(***************************************************************************)
\* backoff_factor = 1.5 = BackoffNum / BackoffDen
BackoffNum == 3
BackoffDen == 2

\* faulty variant: the exponent is the attempt index, not attempt - 1
Backoff_ExponentOff(a) == <<BackoffNum ^ a, BackoffDen ^ a>>

\* self._backoff_factor ** (attempt - 1)
Backoff(a) == <<BackoffNum ^ (a - 1), BackoffDen ^ (a - 1)>>

DigitVal(c) ==
    CASE c = "0" -> 0 [] c = "1" -> 1 [] c = "2" -> 2 [] c = "3" -> 3
      [] c = "4" -> 4 [] c = "5" -> 5 [] c = "6" -> 6 [] c = "7" -> 7
      [] c = "8" -> 8 [] c = "9" -> 9

RECURSIVE DecimalValue(_)
DecimalValue(ds) ==
    IF ds = <<>> THEN 0
    ELSE 10 * DecimalValue(SubSeq(ds, 1, Len(ds) - 1)) + DigitVal(Last(ds))

\* float(text) for a decimal literal: digits, at most one "."
Float(text) ==
    LET IsDigit(c) == c # "."
        dots == {i \in 1..Len(text) : text[i] = "."}
        frac == IF dots = {} THEN 0 ELSE Len(text) - (CHOOSE i \in dots : TRUE)
    IN  <<DecimalValue(SelectSeq(text, IsDigit)), 10 ^ frac>>

(***************************************************************************)
(* What one HTTP attempt can produce: requests.RequestException, or a      *)
(* response with a status and headers.  Retry-After, when the server sends *)
(* it, is a number of seconds, possibly fractional.                        *)
(***************************************************************************)
NoHeaders == <<>>
RetryAfterTexts == {<<"0">>, <<"1", ".", "5">>}
HeaderSets == {NoHeaders} \cup {("Retry-After" :> t) : t \in RetryAfterTexts}
Statuses == {200, 304, 404, 429, 500, 503}
RequestException == [kind |-> "exc", status |-> 0, headers |-> NoHeaders]
Responses == [kind : {"resp"}, status : Statuses, headers : HeaderSets]
Outcomes == {RequestException} \cup Responses
NoResponse == [kind |-> "none", status |-> 0, headers |-> NoHeaders]

\* response.headers.get(name): None when the header is absent
None == [some |-> FALSE, val |-> <<>>]
HeadersGet(headers, name) ==
    IF name \in DOMAIN headers THEN [some |-> TRUE, val |-> headers[name]] ELSE None

\* truth value of an optional string: None and "" are falsy
Truthy(opt) == opt.some /\ opt.val # <<>>

NoSleep == <<0, 1>>
LogEntry(out, slept, sleep_for) ==
    [outcome |-> out, slept |-> slept, sleep_for |-> sleep_for]

(***************************************************************************)
(* ManifoldClient._request                                                 *)
(***************************************************************************)
\* faulty variant: range(1, self._max_retries)
InRange_Exclusive(a) == a < max_retries

\* range(1, self._max_retries + 1) still has `a`
InRange(a) == a <= max_retries

\* faulty variant: the transport failure is re-raised one attempt early
IsFinalAttempt_Early(a) == a + 1 >= max_retries

\* faulty variant: the transport failure is never re-raised
IsFinalAttempt_Never(a) == a > max_retries

\* if attempt == self._max_retries: raise
IsFinalAttempt(a) == a = max_retries

\* faulty variant: a 429 is retried on the last attempt too
RetryRateLimited_OnLast(resp, a) == resp.status = 429

\* if response.status_code == 429 and attempt < self._max_retries
RetryRateLimited(resp, a) == resp.status = 429 /\ a < max_retries

\* faulty variant: the Retry-After header is not read
RateLimitSleep_NoHeader(resp, a) == Backoff(a)

\* sleep_for = float(retry_after) if retry_after else backoff ** (attempt - 1)
RateLimitSleep(resp, a) ==
    LET retry_after == HeadersGet(resp.headers, "Retry-After")
    IN  IF Truthy(retry_after) THEN Float(retry_after.val) ELSE Backoff(a)

\* faulty variant: every error status is retried
RetryServerError_From400(resp, a) == resp.status >= 400 /\ a < max_retries

\* if response.status_code >= 500 and attempt < self._max_retries
RetryServerError(resp, a) == resp.status >= 500 /\ a < max_retries

\* faulty variant: a 5xx response honours Retry-After as a 429 does
ServerErrorSleep_RetryAfter(resp, a) == RateLimitSleep(resp, a)

\* sleep_for = self._backoff_factor ** (attempt - 1)
ServerErrorSleep(resp, a) == Backoff(a)

Retry(out, sleep_for) ==
    /\ log' = Append(log, LogEntry(out, TRUE, sleep_for))
    /\ attempt' = attempt + 1
    /\ UNCHANGED <<pc, response, error>>

Raise(out, exc) ==
    /\ log' = Append(log, LogEntry(out, FALSE, NoSleep))
    /\ pc' = "raised"
    /\ error' = exc
    /\ UNCHANGED <<attempt, response>>

Return(out) ==
    /\ log' = Append(log, LogEntry(out, FALSE, NoSleep))
    /\ pc' = "returned"
    /\ response' = out
    /\ UNCHANGED <<attempt, error>>

\* faulty variant: the limiter is asked once, before the first attempt only
AttemptEvents_FirstOnly(a) ==
    IF has_limiter /\ a = 1 THEN <<"wait", "request">> ELSE <<"request">>

\* self._rate_limiter.wait(), then self.session.request(...); the client of
\* manifold_etl calls requests.request(...) with no limiter before it
AttemptEvents(a) == IF has_limiter THEN <<"wait", "request">> ELSE <<"request">>

\* one iteration of the for loop: the HTTP attempt and what follows it
Attempt ==
    /\ pc = "for"
    /\ InRange(attempt)
    /\ events' = events \o AttemptEvents(attempt)
    /\ \E out \in Outcomes :
          IF out.kind = "exc"
          THEN IF IsFinalAttempt(attempt)
               THEN Raise(out, "RequestException")
               ELSE Retry(out, Backoff(attempt))
          ELSE IF RetryRateLimited(out, attempt)
               THEN Retry(out, RateLimitSleep(out, attempt))
               ELSE IF RetryServerError(out, attempt)
                    THEN Retry(out, ServerErrorSleep(out, attempt))
                    ELSE Return(out)
    /\ UNCHANGED <<max_retries, has_limiter, get_json, othersOfClient>>

\* the loop ran out: raise RuntimeError("Exceeded maximum retries for request")
Exhausted ==
    /\ pc = "for"
    /\ ~InRange(attempt)
    /\ pc' = "raised"
    /\ error' = "RuntimeError"
    /\ UNCHANGED <<max_retries, attempt, log, response, has_limiter, events,
                   get_json, othersOfClient>>

(***************************************************************************)
(* ManifoldClient.get_json: _request("GET", ...), raise_for_status(),      *)
(* response.json()                                                         *)
(***************************************************************************)
GetJsonResult(state, err, carried, body_is_json) ==
    [state |-> state, error |-> err, carried |-> carried, body_is_json |-> body_is_json]

GetJsonOff == GetJsonResult("off", "none", NoResponse, FALSE)
GetJsonPending == GetJsonResult("pending", "none", NoResponse, FALSE)

\* Response.raise_for_status raises HTTPError for the statuses 400..599
RaiseForStatus(status) == status >= 400 /\ status < 600

\* get_json after _request has ended: an exception of _request passes through;
\* a returned response goes through raise_for_status and then json()
GetJsonFinish ==
    /\ get_json.state = "pending"
    /\ pc \in {"returned", "raised"}
    /\ \E body_is_json \in BOOLEAN :
          get_json' =
             IF pc = "raised"
             THEN GetJsonResult("raised", error, NoResponse, FALSE)
             ELSE IF RaiseForStatus(response.status)
             THEN GetJsonResult("raised", "HTTPError", response, body_is_json)
             ELSE IF body_is_json
             THEN GetJsonResult("returned", "none", NoResponse, TRUE)
             ELSE GetJsonResult("raised", "ValueError", NoResponse, FALSE)
    /\ UNCHANGED <<max_retries, attempt, pc, log, response, error, has_limiter,
                   events, othersOfClient>>

(***************************************************************************)
(* The paginated read endpoint, as the paginator sees it through get_json: *)
(* the subject's records have ids 1..total in cursor order, and a call     *)
(* with `limit` and `before` answers with the (at most `limit`) records    *)
(* that follow the record `before`; without `before`, from the start.      *)
(* A cursor of 0 stands for None: no `before` parameter.                   *)
(***************************************************************************)
Min(x, y) == IF x <= y THEN x ELSE y
Max(x, y) == IF x >= y THEN x ELSE y

RecordsPage(count, params) ==
    [j \in 1..Min(params.limit, count - params.before) |-> [id |-> params.before + j]]

EndpointPage(params) == RecordsPage(total, params)

\* what client.get_json can do with one call: answer, or raise
GetJsonFaults == {"none", "HTTPError404", "HTTPError", "Exception"}

(***************************************************************************)
(* _fetch_bet_pages, drained by fetch_all_bet_payloads                     *)
(***************************************************************************)
\* faulty variant: the cursor is never sent
PageParams_NoCursor(cursor) == [limit |-> LIMIT, before |-> 0]

\* params = {"userId": user_id, "limit": LIMIT}; if before: params["before"] = before
PageParams(cursor) == [limit |-> LIMIT, before |-> IF cursor # 0 THEN cursor ELSE 0]

\* faulty variant: a full page also ends the pagination
IsShortPage_Inclusive(data) == Len(data) <= LIMIT

\* if len(data) < LIMIT: break
IsShortPage(data) == Len(data) < LIMIT

\* faulty variant: the cursor is taken from the first element
NextCursor_First(data) == data[1].id

\* before = data[-1].get("id")
NextCursor(data) == Last(data).id

\* faulty variant: an error throws away what was fetched
OnGetJsonError_Discards ==
    /\ ppc' = "done"
    /\ page_error' = TRUE
    /\ pages' = <<>>
    /\ payloads' = <<>>
    /\ UNCHANGED before

\* except requests.HTTPError / except Exception: print and break; the for
\* loop of fetch_all_bet_payloads ends with what it has extended so far
OnGetJsonError ==
    /\ ppc' = "done"
    /\ page_error' = TRUE
    /\ UNCHANGED <<pages, payloads, before>>

\* one iteration of `while True`: the get_json call and what follows it;
\* a yielded page is taken at once by fetch_all_bet_payloads' payloads.extend
FetchPage ==
    /\ ppc = "while"
    /\ \E fault \in GetJsonFaults :
          LET params == PageParams(before)
              data == EndpointPage(params)
          IN  /\ calls' = Append(calls, params)
              /\ IF fault # "none"
                 THEN OnGetJsonError
                 ELSE IF data = <<>>
                 THEN /\ ppc' = "done"
                      /\ UNCHANGED <<pages, payloads, before, page_error>>
                 ELSE /\ pages' = Append(pages, data)
                      /\ payloads' = payloads \o data
                      /\ IF IsShortPage(data)
                         THEN ppc' = "done" /\ UNCHANGED before
                         ELSE /\ before' = NextCursor(data)
                              /\ ppc' = IF before' = 0 THEN "done" ELSE "while"
                      /\ UNCHANGED page_error
    /\ UNCHANGED <<total, LIMIT, othersOfPager>>

(***************************************************************************)
(* quick_check, the threshold gate.  The body get_json hands back is a     *)
(* JSON value: a list of objects as the endpoint documents it, or a list   *)
(* of scalars, or null, which the code does not rule out.                  *)
(***************************************************************************)
Shapes == {"objects", "scalars", "null"}

Answer(fault, shape) == [fault |-> fault, shape |-> shape]

\* the thresholds the gate is exercised with
Thresholds == {0, 1, 50}

\* faulty variant: the page asked for is one record short of telling
GateParams_NoMargin(th) == [limit |-> th, before |-> 0]

\* params={"userId": user_id, "limit": threshold + 1}
GateParams(th) == [limit |-> th + 1, before |-> 0]

QuickCheckResult(at, result, err) == [at |-> at, result |-> result, error |-> err]
QuickCheckPending == QuickCheckResult("call", FALSE, "none")

\* faulty variant: only HTTP errors are handled
Handled_HTTPOnly(fault) == fault \in {"HTTPError404", "HTTPError"}

\* except requests.HTTPError ... except Exception: every fault of get_json
Handled(fault) == fault \in {"HTTPError404", "HTTPError", "Exception"}

\* len(data) is defined for a list, not for None
HasLen(shape) == shape # "null"

\* faulty variant: the threshold itself does not pass
ReachesThreshold_Strict(data, th) == Len(data) > th

\* return len(data) >= threshold
ReachesThreshold(data, th) == Len(data) >= th

\* the body of quick_check after its get_json call
QuickCheckOutcome(ans, data, th) ==
    IF ans.fault # "none"
    THEN IF Handled(ans.fault)
         THEN QuickCheckResult("returned", FALSE, "none")
         ELSE QuickCheckResult("raised", FALSE, ans.fault)
    ELSE IF ~HasLen(ans.shape)
    THEN QuickCheckResult("raised", FALSE, "TypeError")
    ELSE QuickCheckResult("returned", ReachesThreshold(data, th), "none")

\* quick_check(client, user_id, username, threshold)
QuickCheck ==
    /\ quick_check.at = "call"
    /\ LET params == GateParams(threshold)
       IN  /\ calls' = Append(calls, params)
           /\ quick_check' = QuickCheckOutcome(answer, EndpointPage(params), threshold)
    /\ UNCHANGED <<threshold, answer, total, LIMIT, before, pages, payloads, ppc,
                   page_error, othersOfGate>>

GateIdle ==
    /\ threshold = 0 /\ answer = Answer("none", "objects")
    /\ quick_check = QuickCheckResult("idle", FALSE, "none")

(***************************************************************************)
(* process_bet_chunk and _process_users, the chunked harvester.  Subject   *)
(* s of the chunk has records 1..count at the endpoint; the endpoint       *)
(* answers every call for s with a body of one shape, and the call number  *)
(* fault_at for s (1 is the gate's call, 2 the first page's) raises an     *)
(* HTTP error; 0 stands for no fault.                                      *)
(***************************************************************************)
Profile(count, shape, fault_at) == [count |-> count, shape |-> shape, fault_at |-> fault_at]

Profiles ==
    {Profile(1, "objects", 0), Profile(3, "objects", 0), Profile(3, "null", 0),
     Profile(3, "scalars", 0), Profile(3, "objects", 1), Profile(3, "objects", 2)}

SubjectFault(s, call_no) == IF endpoint[s].fault_at = call_no THEN "HTTPError" ELSE "none"

\* quick_check(client, user_id, username), threshold = THRESHOLD
GateOf(s) ==
    QuickCheckOutcome(Answer(SubjectFault(s, 1), endpoint[s].shape),
                      RecordsPage(endpoint[s].count, GateParams(threshold)),
                      threshold)

Drained(bet_payloads, page_calls, err) ==
    [payloads |-> bet_payloads, page_calls |-> page_calls, error |-> err]

\* fetch_all_bet_payloads over _fetch_bet_pages: the loop of FetchPage as a
\* function of the subject; data[-1].get("id") needs a list of objects
RECURSIVE FetchAllBetPayloads(_, _, _, _)
FetchAllBetPayloads(s, cursor, acc, call_no) ==
    LET data == RecordsPage(endpoint[s].count, PageParams(cursor))
    IN  IF SubjectFault(s, call_no) # "none"
        THEN Drained(acc, call_no - 1, "none")
        ELSE IF endpoint[s].shape = "null" \/ data = <<>>
        THEN Drained(acc, call_no - 1, "none")
        ELSE IF IsShortPage(data)
        THEN Drained(acc \o data, call_no - 1, "none")
        ELSE IF endpoint[s].shape = "scalars"
        THEN Drained(<<>>, call_no - 1, "AttributeError")
        ELSE IF NextCursor(data) = 0
        THEN Drained(acc \o data, call_no - 1, "none")
        ELSE FetchAllBetPayloads(s, NextCursor(data), acc \o data, call_no + 1)

DrainOf(s) == FetchAllBetPayloads(s, 0, <<>>, 2)

\* the records of subject s, as payloads
Tag(s, data) == [k \in 1..Len(data) |-> [userId |-> s, id |-> data[k].id]]

\* one run of _process_users over user_chunk
Run(user_chunk) ==
    [chunk |-> user_chunk, idx |-> 1, phase |-> "gate", payloads |-> <<>>,
     processed_users |-> 0, error |-> "none", merged |-> FALSE]

Finished(f) == f.idx > Len(f.chunk) \/ f.error # "none"

\* the next subject of the for loop
Advance(f) == [f EXCEPT !.idx = @ + 1, !.phase = "gate"]

\* faulty variant: the loop body has no except clause
Caught_None(err) == FALSE

\* except Exception as exc: print(f"ERROR: {exc}")
Caught(err) == err \in {"TypeError", "AttributeError"}

\* faulty variant: the gate's answer is ignored
Qualified_Always(gate) == TRUE

\* if not quick_check(...): continue
Qualified(gate) == gate.result

AfterError(f, err) == IF Caught(err) THEN Advance(f) ELSE [f EXCEPT !.error = err]

AfterGate(f, gate) ==
    IF gate.at = "raised" THEN AfterError(f, gate.error)
    ELSE IF ~Qualified(gate) THEN Advance(f)
    ELSE [f EXCEPT !.phase = "drain"]

\* faulty variant: a subject whose drain gave nothing is counted too
AfterDrain_CountsEmpty(f, s, drained) ==
    IF drained.error # "none" THEN AfterError(f, drained.error)
    ELSE Advance([f EXCEPT !.payloads = @ \o Tag(s, drained.payloads),
                           !.processed_users = @ + 1])

AfterDrain(f, s, drained) ==
    IF drained.error # "none" THEN AfterError(f, drained.error)
    ELSE IF drained.payloads = <<>> THEN Advance(f)
    ELSE Advance([f EXCEPT !.payloads = @ \o Tag(s, drained.payloads),
                           !.processed_users = @ + 1])

\* _process_users as a function of its chunk
RECURSIVE RunToEnd(_)
RunToEnd(f) ==
    IF Finished(f) THEN f
    ELSE LET s == f.chunk[f.idx]
         IN  IF f.phase = "gate"
             THEN RunToEnd(AfterGate(f, GateOf(s)))
             ELSE RunToEnd(AfterDrain(f, s, DrainOf(s)))

ProcessUsers(user_chunk) == RunToEnd(Run(user_chunk))

\* worker_count = max(1, worker_count)
EffectiveWorkers == Max(1, worker_count)

\* not (worker_count == 1 or len(user_list) <= 1)
Parallel == ~(EffectiveWorkers = 1 \/ Len(user_list) <= 1)

\* faulty variant: the size is rounded down
sub_chunk_size_Floor == Max(1, Len(user_list) \div EffectiveWorkers)

\* sub_chunk_size = max(1, (len(user_list) + worker_count - 1) // worker_count)
sub_chunk_size ==
    Max(1, (Len(user_list) + EffectiveWorkers - 1) \div EffectiveWorkers)

\* faulty variant: a slice starts at every index
Range0_EveryIndex(n, step) == [k \in 1..n |-> k - 1]

\* range(0, n, step), as a sequence
Range0(n, step) == [k \in 1..((n + step - 1) \div step) |-> (k - 1) * step]

\* faulty variant: a slice one subject short
SubChunk_DropsLast(i) ==
    SubSeq(user_list, i + 1, Min(i + sub_chunk_size - 1, Len(user_list)))

\* user_list[i : i + sub_chunk_size]
SubChunk(i) == SubSeq(user_list, i + 1, Min(i + sub_chunk_size, Len(user_list)))

\* the branch taken: one run on the calling thread, or one submitted run
\* per sub-chunk
Submit ==
    /\ hpc = "call"
    /\ futures' =
          IF ~Parallel
          THEN <<Run(user_list)>>
          ELSE LET starts == Range0(Len(user_list), sub_chunk_size)
               IN  [k \in 1..Len(starts) |-> Run(SubChunk(starts[k]))]
    /\ hpc' = "running"
    /\ UNCHANGED <<user_list, endpoint, worker_count, requests, harvest, othersOfHarvest>>

\* a run reaches its next subject and calls quick_check
GateStep(w) ==
    /\ hpc = "running"
    /\ w \in 1..Len(futures)
    /\ ~Finished(futures[w])
    /\ futures[w].phase = "gate"
    /\ LET s == futures[w].chunk[futures[w].idx]
       IN  /\ requests' = [requests EXCEPT ![s] = Append(@, "gate")]
           /\ futures' = [futures EXCEPT ![w] = AfterGate(@, GateOf(s))]
    /\ UNCHANGED <<user_list, endpoint, worker_count, harvest, hpc, othersOfHarvest>>

\* a run drains the paginator of a subject that passed the gate
DrainStep(w) ==
    /\ hpc = "running"
    /\ w \in 1..Len(futures)
    /\ ~Finished(futures[w])
    /\ futures[w].phase = "drain"
    /\ LET s == futures[w].chunk[futures[w].idx]
           drained == DrainOf(s)
       IN  /\ requests' = [requests EXCEPT ![s] =
                 @ \o [k \in 1..drained.page_calls |-> "page"]]
           /\ futures' = [futures EXCEPT ![w] = AfterDrain(@, s, drained)]
    /\ UNCHANGED <<user_list, endpoint, worker_count, harvest, hpc, othersOfHarvest>>

\* faulty variant: a future is merged while its run is still going
CanMerge_Early(w) == TRUE

\* as_completed(futures) yields a future once its run has ended
CanMerge(w) == Finished(futures[w])

\* for future in as_completed(futures): future.result(), extend, add
Merge(w) ==
    /\ hpc = "running"
    /\ Parallel
    /\ w \in 1..Len(futures)
    /\ ~futures[w].merged
    /\ CanMerge(w)
    /\ futures' = [futures EXCEPT ![w].merged = TRUE]
    /\ IF futures[w].error # "none"
       THEN hpc' = "raised" /\ UNCHANGED harvest
       ELSE /\ harvest' =
                 [payloads |-> harvest.payloads \o futures[w].payloads,
                  processed_users |-> harvest.processed_users
                                         + futures[w].processed_users]
            /\ UNCHANGED hpc
    /\ UNCHANGED <<user_list, endpoint, worker_count, requests, othersOfHarvest>>

\* return payloads, processed_users
ReturnChunk ==
    /\ hpc = "running"
    /\ IF Parallel
       THEN /\ \A w \in 1..Len(futures) : futures[w].merged
            /\ hpc' = "returned"
            /\ UNCHANGED <<harvest, futures>>
       ELSE /\ Finished(futures[1])
            /\ futures' = [futures EXCEPT ![1].merged = TRUE]
            /\ IF futures[1].error # "none"
               THEN hpc' = "raised" /\ UNCHANGED harvest
               ELSE /\ harvest' = [payloads |-> futures[1].payloads,
                                   processed_users |-> futures[1].processed_users]
                    /\ hpc' = "returned"
    /\ UNCHANGED <<user_list, endpoint, worker_count, requests, othersOfHarvest>>

NoHarvest == [payloads |-> <<>>, processed_users |-> 0]

HarvestIdle ==
    /\ user_list = <<>> /\ endpoint = <<>> /\ worker_count = 1 /\ futures = <<>>
    /\ requests = <<>> /\ harvest = NoHarvest /\ hpc = "idle"

(***************************************************************************)
(* _fetch_bet_pages for several subjects at once: each worker of           *)
(* process_bet_chunk drains its own generator, whose `before` and          *)
(* `params` are locals of that generator; the client they call through is  *)
(* shared and is handed the params as an argument.                         *)
(***************************************************************************)
Pagers == {1, 2}

Pager(cursor, at, emitted, made) ==
    [before |-> cursor, at |-> at, pages |-> emitted, calls |-> made]

\* params = {"userId": user_id, "limit": LIMIT}; if before: params["before"] = before
SubjectParams(s, cursor) ==
    [userId |-> s, limit |-> PageParams(cursor).limit, before |-> PageParams(cursor).before]

\* faulty variant: one cursor for all generators
CursorHeld_Shared(s) == pagers[CHOOSE o \in Pagers : o # s].before

\* the generator's local `before`
CursorHeld(s) == pagers[s].before

\* one iteration of `while True` in the generator of subject s
FetchPageOf(s) ==
    /\ pagers[s].at = "while"
    /\ LET params == SubjectParams(s, CursorHeld(s))
           made == Append(pagers[s].calls, params)
           data == Tag(s, RecordsPage(endpoint[s].count, params))
           emitted == Append(pagers[s].pages, data)
       IN  pagers' = [pagers EXCEPT ![s] =
              IF SubjectFault(s, Len(made) + 1) # "none" \/ data = <<>>
              THEN Pager(@.before, "done", @.pages, made)
              ELSE IF IsShortPage(data) \/ NextCursor(data) = 0
              THEN Pager(IF IsShortPage(data) THEN @.before ELSE NextCursor(data),
                         "done", emitted, made)
              ELSE Pager(NextCursor(data), "while", emitted, made)]
    /\ UNCHANGED othersOfCursors

CursorsIdle == pagers = [s \in Pagers |-> Pager(0, "done", <<>>, <<>>)]

(***************************************************************************)
(* PostgresLoader.stream_user_chunks.  The table users_clean maps the ids  *)
(* 1..n, in their ascending order, to usernames; a username is a number    *)
(* 1..MaxLabel, ordered as the store orders the strings, and no two        *)
(* subjects share one (the store's interface: a unique label).             *)
(***************************************************************************)
Ids == DOMAIN users_clean

\* (row.id, row.username)
Row(id) == <<id, users_clean[id]>>

\* select(table.c.id, table.c.username).order_by(table.c.id) with a WHERE clause
\* (the ids that satisfy it), from `id` on
RECURSIVE SelectFrom(_, _)
SelectFrom(id, where) ==
    IF id \notin Ids THEN <<>>
    ELSE (IF id \in where THEN <<Row(id)>> ELSE <<>>) \o SelectFrom(id + 1, where)

NoId == 0

\* select(id).where(username == start_username).order_by(id).limit(1)
\*   .scalar_one_or_none()
StartId ==
    LET found == {id \in Ids : users_clean[id] = start_username}
    IN  IF found = {} THEN NoId ELSE CHOOSE id \in found : \A o \in found : id <= o

Everything == Ids

\* faulty variant: the resume point itself is left out
FromId_Exclusive == {id \in Ids : id > StartId}

\* .where(table.c.id >= start_id)
FromId == {id \in Ids : id >= StartId}

\* faulty variant: every id from the first later username on
AfterUsername_AsStart ==
    {id \in Ids : \E o \in Ids : o <= id /\ users_clean[o] > start_username}

\* .where(table.c.username > start_username)
AfterUsername == {id \in Ids : users_clean[id] > start_username}

\* effective_stmt, executed
EffectiveRows ==
    IF start_username = 0 THEN SelectFrom(1, Everything)
    ELSE IF StartId # NoId THEN SelectFrom(1, FromId)
    ELSE SelectFrom(1, AfterUsername)

\* faulty variant: a batch is yielded one row late
BatchFull_Over(grown) == Len(grown) > chunk_size

\* if len(batch) >= chunk_size
BatchFull(grown) == Len(grown) >= chunk_size

\* faulty variant: the yielded rows stay in the batch
NextBatch_Keeps(grown) == grown

\* batch = []
NextBatch(grown) == <<>>

\* the generator starts: the chunk_size check, the lookup, the statement
OpenStream ==
    /\ spc = "call"
    /\ IF chunk_size <= 0
       THEN spc' = "raised" /\ UNCHANGED result_rows
       ELSE spc' = "for" /\ result_rows' = EffectiveRows
    /\ UNCHANGED <<users_clean, chunk_size, start_username, batch, chunks, othersOfStream>>

\* for row in result: append, and yield a full batch
ReadRow ==
    /\ spc = "for"
    /\ result_rows # <<>>
    /\ LET grown == Append(batch, Head(result_rows))
       IN  IF BatchFull(grown)
           THEN chunks' = Append(chunks, grown) /\ batch' = NextBatch(grown)
           ELSE batch' = grown /\ UNCHANGED chunks
    /\ result_rows' = Tail(result_rows)
    /\ UNCHANGED <<users_clean, chunk_size, start_username, spc, othersOfStream>>

\* if batch: yield batch
EndStream ==
    /\ spc = "for"
    /\ result_rows = <<>>
    /\ chunks' = IF batch # <<>> THEN Append(chunks, batch) ELSE chunks
    /\ batch' = <<>>
    /\ spc' = "done"
    /\ UNCHANGED <<users_clean, chunk_size, start_username, result_rows, othersOfStream>>

StreamIdle ==
    /\ users_clean = <<>> /\ chunk_size = 1 /\ start_username = 0
    /\ result_rows = <<>> /\ batch = <<>> /\ chunks = <<>> /\ spc = "idle"

(***************************************************************************)
(* PostgresLoader.upsert_clean: one INSERT ... ON CONFLICT (id) DO UPDATE  *)
(* statement per call, run in a transaction of its own.  A table of two    *)
(* columns besides id stands for the clean tables; a normalized record has *)
(* a value for every column.                                               *)
(***************************************************************************)
StoreIds == {1, 2}
Columns == {"amount", "outcome"}

\* the records a normalizer hands over, each column one of two values
CleanRecords == [id : StoreIds, amount : {1, 2}, outcome : {1, 2}]

\* the lists upsert_clean is called with: none, one or two records
Batches == UNION {[1..n -> CleanRecords] : n \in {0, 1, 2}}

NoRow == [col \in Columns |-> 0]

\* the row proposed for insertion, stmt.excluded
Excluded(record) == [col \in Columns |-> record[col]]

\* faulty variant: one column is left out of the SET list
SetColumns_AmountOnly == {"amount"}

\* set_ = {col.name: excluded[col.name] for col in table.columns if col.name != "id"}
SetColumns == {col \in Columns \cup {"id"} : col # "id"}

\* one proposed row against the table: INSERT, or DO UPDATE SET on a conflict on id
InsertOrUpdate(rows, record) ==
    IF rows[record.id] = NoRow
    THEN [rows EXCEPT ![record.id] = Excluded(record)]
    ELSE [rows EXCEPT ![record.id] =
             [col \in Columns |-> IF col \in SetColumns THEN Excluded(record)[col] ELSE @[col]]]

\* insert(table).values(records).on_conflict_do_update(...), row by row
RECURSIVE Execute(_, _)
Execute(rows, records) ==
    IF records = <<>> THEN rows
    ELSE Execute(InsertOrUpdate(rows, Head(records)), Tail(records))

\* the store refuses a statement that proposes two rows for one id
\* ("ON CONFLICT DO UPDATE command cannot affect row a second time")
AffectsRowTwice(records) ==
    \E i, j \in 1..Len(records) : i # j /\ records[i].id = records[j].id

UpsertCall(records, rows, outcome, rowcount) ==
    [records |-> records, before |-> rows, outcome |-> outcome, rowcount |-> rowcount]

\* upsert_clean(table_name, records)
UpsertClean(records) ==
    /\ Len(upsert_log) < MaxUpserts
    /\ IF records = <<>>
       THEN /\ upsert_log' = Append(upsert_log, UpsertCall(records, table_rows, "returned", 0))
            /\ UNCHANGED table_rows
       ELSE IF AffectsRowTwice(records)
       THEN \* engine.begin() rolls the transaction back and the error goes up
            /\ upsert_log' = Append(upsert_log, UpsertCall(records, table_rows, "raised", 0))
            /\ UNCHANGED table_rows
       ELSE /\ table_rows' = Execute(table_rows, records)
            /\ upsert_log' = Append(upsert_log,
                                    UpsertCall(records, table_rows, "returned", Len(records)))
    /\ UNCHANGED othersOfStore

StoreIdle == table_rows = <<>> /\ upsert_log = <<>>

(***************************************************************************)
(* run_users_stage: the users of the endpoint, streamed page by page, cut  *)
(* into chunks and handed to the loader up to USER_LIMIT.                  *)
(***************************************************************************)
NoLimit == -1

\* stream_users(client, page_size=page_size): the users of every page, in order
RECURSIVE StreamUsers(_, _, _)
StreamUsers(count, page_size, cursor) ==
    LET page == RecordsPage(count, [limit |-> page_size, before |-> cursor])
    IN  IF page = <<>> THEN <<>>
        ELSE IF Len(page) < page_size THEN page
        ELSE page \o StreamUsers(count, page_size, page[Len(page)].id)

\* faulty variant: the chunk that crosses the limit is handed over whole
Truncate_Whole(user_batch, room) == user_batch

\* batch[: limit - total]
Truncate(user_batch, room) == SubSeq(user_batch, 1, Min(room, Len(user_batch)))

\* the chunk the for loop is at
Position == Len(handed) + 1

\* if limit is not None and total >= limit: break
BreakAtLimit ==
    /\ upc = "for"
    /\ Position <= Len(user_chunks)
    /\ limit # NoLimit /\ total_users >= limit
    /\ upc' = "done"
    /\ UNCHANGED <<limit, user_chunks, total_users, handed, othersOfUsers>>

\* one pass of the loop body: truncate, prepare, upsert, count
IngestBatch ==
    /\ upc = "for"
    /\ Position <= Len(user_chunks)
    /\ ~(limit # NoLimit /\ total_users >= limit)
    /\ LET chunk == user_chunks[Position]
           user_batch == IF limit # NoLimit /\ total_users + Len(chunk) > limit
                         THEN Truncate(chunk, limit - total_users)
                         ELSE chunk
       IN  /\ handed' = Append(handed, user_batch)
           /\ total_users' = total_users + Len(user_batch)
    /\ UNCHANGED <<limit, user_chunks, upc, othersOfUsers>>

\* the stream is exhausted
EndUsers ==
    /\ upc = "for"
    /\ Position > Len(user_chunks)
    /\ upc' = "done"
    /\ UNCHANGED <<limit, user_chunks, total_users, handed, othersOfUsers>>

UsersIdle ==
    /\ limit = NoLimit /\ user_chunks = <<>> /\ total_users = 0
    /\ handed = <<>> /\ upc = "idle"

(***************************************************************************)
(* run_bets_stage, one iteration of `for user_chunk in ...` per step.  A   *)
(* chunk meets at most one failure: in one subject's harvest, in the       *)
(* normalization of one payload, or in the write of one record.            *)
(***************************************************************************)
\* "empty" is a chunk with no payload at all
ChunkFaults ==
    {"none", "empty", "subject", "normalize", "ProgrammingError", "IntegrityError"}

\* [normalize_bet(payload, collected_at) for payload in bet_payloads]
NormalizeRaises(fault) == fault = "normalize"

\* except ProgrammingError as exc: the batch is bisected or its record dropped
CaughtByWriter(err) == err = "ProgrammingError"

\* try: loader.upsert_clean("bets_clean", record_batch)
WriteRaises(fault) ==
    fault \in {"ProgrammingError", "IntegrityError"} /\ ~CaughtByWriter(fault)

\* the exception that leaves the loop body, "none" when the body ends; the
\* error of a subject's harvest stays inside process_bet_chunk, and a chunk
\* with no payload goes on to the next chunk
BodyError(fault) ==
    IF fault \in {"subject", "empty"} THEN "none"
    ELSE IF NormalizeRaises(fault) THEN "ValidationError"
    ELSE IF WriteRaises(fault) THEN fault
    ELSE "none"

\* one iteration of the loop over the subject stream
ProcessChunk ==
    /\ bpc = "for"
    /\ chunks_done < Len(stage_chunks)
    /\ LET err == BodyError(stage_chunks[chunks_done + 1])
       IN  IF err = "none"
           THEN /\ chunks_done' = chunks_done + 1
                /\ UNCHANGED <<stage_error, bpc>>
           ELSE /\ stage_error' = err
                /\ bpc' = "raised"
                /\ UNCHANGED chunks_done
    /\ UNCHANGED <<stage_chunks, othersOfStage>>

\* logger.info("Bet ingestion completed (%s total bets)", total_bets)
CompleteStage ==
    /\ bpc = "for"
    /\ chunks_done = Len(stage_chunks)
    /\ bpc' = "completed"
    /\ UNCHANGED <<stage_chunks, chunks_done, stage_error, othersOfStage>>

StageIdle ==
    /\ stage_chunks = <<>> /\ chunks_done = 0 /\ stage_error = "none" /\ bpc = "idle"

(***************************************************************************)
(* run_bets_stage: the writes of one chunk of normalized records           *)
(***************************************************************************)
\* len(table.columns) of bets_clean
bet_column_count == 26

\* config.BET_MAX_PARAMS_PER_STATEMENT; 0 stands for a limit that is not set
MaxParamsChoices == {0, 10, 26, 80, 130}

\* max(1, max_params // columns) when the limit applies, else None (0)
MaxRecordsPerUpsert(max_params_per_statement) ==
    IF max_params_per_statement > 0 /\ bet_column_count # 0
    THEN Max(1, max_params_per_statement \div bet_column_count)
    ELSE 0

\* _chunked(iterable, size)
RECURSIVE ChunkedFrom(_, _, _, _)
ChunkedFrom(items, size, chunk, out) ==
    IF items = <<>>
    THEN IF chunk # <<>> THEN Append(out, chunk) ELSE out
    ELSE LET grown == Append(chunk, Head(items))
         IN  IF Len(grown) >= size
             THEN ChunkedFrom(Tail(items), size, <<>>, Append(out, grown))
             ELSE ChunkedFrom(Tail(items), size, grown, out)

\* faulty variant: the chunk is not cut
Chunked_Whole(items, size) == <<items>>

Chunked(items, size) == ChunkedFrom(items, size, <<>>, <<>>)

\* the store rejects a statement (ProgrammingError) when it holds a bad record;
\* the transaction of a rejected statement leaves the table as it was
UpsertFails(record_batch) == \E i \in 1..Len(record_batch) : record_batch[i] \in bad

\* split_point = max(1, len(record_batch) // 2)
\* faulty variant: only the first record is split off
SplitPoint_One(record_batch) == 1

\* split_point = max(1, len(record_batch) // 2)
SplitPoint(record_batch) == Max(1, Len(record_batch) \div 2)

\* faulty variant: the first half runs one record into the second
FirstHalf_Overlaps(record_batch) ==
    SubSeq(record_batch, 1, Min(Len(record_batch), SplitPoint(record_batch) + 1))

\* first_half = record_batch[:split_point]
FirstHalf(record_batch) == SubSeq(record_batch, 1, SplitPoint(record_batch))

\* faulty variant: the second half starts one record late
SecondHalf_SkipsOne(record_batch) ==
    SubSeq(record_batch, SplitPoint(record_batch) + 2, Len(record_batch))

\* second_half = record_batch[split_point:]
SecondHalf(record_batch) ==
    SubSeq(record_batch, SplitPoint(record_batch) + 1, Len(record_batch))

\* faulty variant: the rejected batch is put back whole
PushHalves_Whole(stack, record_batch) == Append(stack, record_batch)

\* if second_half: append(second_half); if first_half: append(first_half)
PushHalves(stack, record_batch) ==
    LET first_half == FirstHalf(record_batch)
        second_half == SecondHalf(record_batch)
        s1 == IF second_half # <<>> THEN Append(stack, second_half) ELSE stack
    IN  IF first_half # <<>> THEN Append(s1, first_half) ELSE s1

\* the pre-split of the chunk and the reset of the chunk's counters
BeginChunk ==
    /\ wpc = "chunk"
    /\ pending_batches' =
          IF max_records_per_upsert # 0 /\ Len(clean_records) > max_records_per_upsert
          THEN Chunked(clean_records, max_records_per_upsert)
          ELSE <<clean_records>>
    /\ bets_upserted_this_batch' = 0
    /\ failed_bets_this_batch' = 0
    /\ wpc' = "while"
    /\ UNCHANGED <<clean_records, bad, max_records_per_upsert, bets_clean,
                   dropped, write_log, othersOfWriter>>

\* one iteration of `while pending_batches`
WriteBatch ==
    /\ wpc = "while"
    /\ pending_batches # <<>>
    /\ LET record_batch == Last(pending_batches)
           popped == SubSeq(pending_batches, 1, Len(pending_batches) - 1)
       IN  /\ write_log' = Append(write_log, record_batch)
           /\ IF UpsertFails(record_batch)
              THEN IF Len(record_batch) = 1
                   THEN /\ failed_bets_this_batch' = failed_bets_this_batch + 1
                        /\ dropped' = dropped \cup {record_batch[1]}
                        /\ pending_batches' = popped
                        /\ UNCHANGED <<bets_clean, bets_upserted_this_batch>>
                   ELSE /\ pending_batches' = PushHalves(popped, record_batch)
                        /\ UNCHANGED <<bets_clean, dropped, bets_upserted_this_batch,
                                       failed_bets_this_batch>>
              ELSE /\ bets_clean' =
                         bets_clean \cup {record_batch[i] : i \in 1..Len(record_batch)}
                   /\ bets_upserted_this_batch' =
                         bets_upserted_this_batch + Len(record_batch)
                   /\ pending_batches' = popped
                   /\ UNCHANGED <<dropped, failed_bets_this_batch>>
    /\ UNCHANGED <<clean_records, bad, max_records_per_upsert, wpc,
                   othersOfWriter>>

\* the loop's exit, on an empty work list
EndChunk ==
    /\ wpc = "while"
    /\ pending_batches = <<>>
    /\ wpc' = "done"
    /\ UNCHANGED <<clean_records, bad, max_records_per_upsert, pending_batches,
                   bets_clean, dropped, write_log, bets_upserted_this_batch,
                   failed_bets_this_batch, othersOfWriter>>

(***************************************************************************)
(* RateLimiter.wait (manifold/etl/src/utils/rate_limit.py).  Time is the   *)
(* monotonic clock in ticks; it advances on its own, at any point of any   *)
(* thread's progress.                                                      *)
(***************************************************************************)
Threads == {"t1", "t2"}
NoThread == "none"

Waiter(at, called_at, now, sleep_for) ==
    [at |-> at, called_at |-> called_at, now |-> now, sleep_for |-> sleep_for]
WaiterOut == Waiter("out", 0, 0, 0)

\* faulty variant: the critical section is entered without the lock
LockFree_Unlocked == TRUE

\* with self._lock: the lock can be taken
LockFree == lock = NoThread

\* sleep_for = self._min_interval - (now - self._last_request)
SleepFor(now) == min_interval - (now - last_request)

\* faulty variant: `now` is not read again after the sleep
NowAfterSleep_Stale(t) == waiter[t].now

\* now = time.monotonic(), after time.sleep(sleep_for)
NowAfterSleep(t) == clock

\* time.sleep(sleep_for) has returned: at least sleep_for has passed
SleepOver(t) == clock >= waiter[t].now + waiter[t].sleep_for

\* with self._lock: now = time.monotonic(); sleep_for = ...; if sleep_for > 0
Enter(t) ==
    /\ waiter[t].at = "out"
    /\ LockFree
    /\ Len(grants) + Cardinality({u \in Threads : waiter[u].at # "out"}) < MaxGrants
    /\ lock' = t
    /\ LET sleep_for == SleepFor(clock)
       IN  waiter' = [waiter EXCEPT ![t] =
              Waiter(IF sleep_for > 0 THEN "sleeping" ELSE "record",
                     clock, clock, sleep_for)]
    /\ UNCHANGED <<min_interval, clock, last_request, grants, othersOfLimiter>>

\* time.sleep(sleep_for) returns; now = time.monotonic()
Wake(t) ==
    /\ waiter[t].at = "sleeping"
    /\ SleepOver(t)
    /\ waiter' = [waiter EXCEPT ![t] =
          [@ EXCEPT !.at = "record", !.now = NowAfterSleep(t)]]
    /\ UNCHANGED <<min_interval, clock, lock, last_request, grants, othersOfLimiter>>

\* self._last_request = now; the lock is released and wait() returns
Record(t) ==
    /\ waiter[t].at = "record"
    /\ last_request' = waiter[t].now
    /\ grants' = Append(grants,
          [thread |-> t, time |-> waiter[t].now, called_at |-> waiter[t].called_at,
           sleep_for |-> waiter[t].sleep_for, returned_at |-> clock])
    /\ lock' = IF lock = t THEN NoThread ELSE lock
    /\ waiter' = [waiter EXCEPT ![t] = WaiterOut]
    /\ UNCHANGED <<min_interval, clock, othersOfLimiter>>

\* the clock moves on
Tick ==
    /\ clock < MaxClock
    /\ clock' = clock + 1
    /\ UNCHANGED <<min_interval, lock, last_request, waiter, grants, othersOfLimiter>>

LimiterIdle ==
    /\ min_interval = 0 /\ clock = 0 /\ lock = NoThread /\ last_request = 0
    /\ waiter = [t \in Threads |-> WaiterOut] /\ grants = <<>>

PagerIdle ==
    /\ total = 0 /\ LIMIT = 1 /\ before = 0 /\ pages = <<>> /\ payloads = <<>>
    /\ calls = <<>> /\ ppc = "done" /\ page_error = FALSE

WriterIdle ==
    /\ clean_records = <<>> /\ bad = {} /\ max_records_per_upsert = 0
    /\ pending_batches = <<>> /\ bets_clean = {} /\ dropped = {}
    /\ write_log = <<>> /\ bets_upserted_this_batch = 0
    /\ failed_bets_this_batch = 0 /\ wpc = "done"

ClientIdle ==
    /\ max_retries = 0 /\ attempt = 1 /\ pc = "raised" /\ log = <<>>
    /\ response = NoResponse /\ error = "none"
    /\ has_limiter = TRUE /\ events = <<>> /\ get_json = GetJsonOff

\* _request is entered: attempt is about to take its first value
Init ==
    /\ max_retries \in 0..MaxRetries
    /\ attempt = 1
    /\ pc = "for"
    /\ log = <<>>
    /\ response = NoResponse
    /\ error = "none"
    /\ has_limiter = TRUE
    /\ events = <<>>
    /\ get_json = GetJsonOff
    /\ PagerIdle
    /\ WriterIdle
    /\ LimiterIdle
    /\ GateIdle
    /\ HarvestIdle
    /\ CursorsIdle
    /\ StreamIdle
    /\ StoreIdle
    /\ UsersIdle
    /\ StageIdle

Next == Attempt \/ Exhausted

Spec == Init /\ [][Next]_vars

\* get_json is entered, on either of the two clients
InitGetJson ==
    /\ max_retries \in 0..MaxRetriesGetJson
    /\ attempt = 1
    /\ pc = "for"
    /\ log = <<>>
    /\ response = NoResponse
    /\ error = "none"
    /\ has_limiter \in BOOLEAN
    /\ events = <<>>
    /\ get_json = GetJsonPending
    /\ PagerIdle
    /\ WriterIdle
    /\ LimiterIdle
    /\ GateIdle
    /\ HarvestIdle
    /\ CursorsIdle
    /\ StreamIdle
    /\ StoreIdle
    /\ UsersIdle
    /\ StageIdle

NextGetJson == Attempt \/ Exhausted \/ GetJsonFinish

SpecGetJson == InitGetJson /\ [][NextGetJson]_vars

\* a pagination starts: no cursor, nothing fetched
InitPaginator ==
    /\ total \in 0..MaxTotal
    /\ LIMIT \in 1..MaxPage
    /\ before = 0
    /\ pages = <<>>
    /\ payloads = <<>>
    /\ calls = <<>>
    /\ ppc = "while"
    /\ page_error = FALSE
    /\ ClientIdle
    /\ WriterIdle
    /\ LimiterIdle
    /\ GateIdle
    /\ HarvestIdle
    /\ CursorsIdle
    /\ StreamIdle
    /\ StoreIdle
    /\ UsersIdle
    /\ StageIdle

NextPaginator == FetchPage

SpecPaginator == InitPaginator /\ [][NextPaginator]_vars

\* a chunk of 1..MaxRecords normalized records (ids 1..n) is about to be written
InitWriter ==
    /\ \E n \in 1..MaxRecords :
          /\ clean_records = [i \in 1..n |-> i]
          /\ bad \in SUBSET (1..n)
    /\ \E max_params \in MaxParamsChoices :
          max_records_per_upsert = MaxRecordsPerUpsert(max_params)
    /\ pending_batches = <<>>
    /\ bets_clean = {}
    /\ dropped = {}
    /\ write_log = <<>>
    /\ bets_upserted_this_batch = 0
    /\ failed_bets_this_batch = 0
    /\ wpc = "chunk"
    /\ ClientIdle
    /\ PagerIdle
    /\ LimiterIdle
    /\ GateIdle
    /\ HarvestIdle
    /\ CursorsIdle
    /\ StreamIdle
    /\ StoreIdle
    /\ UsersIdle
    /\ StageIdle

NextWriter == BeginChunk \/ WriteBatch \/ EndChunk

SpecWriter == InitWriter /\ [][NextWriter]_vars

\* the loop is straight-line code of one thread: a step that can be taken is taken
SpecWriterFair == SpecWriter /\ WF_vars(NextWriter)

\* a fresh RateLimiter(min_interval): _last_request = 0.0, the lock free
InitLimiter ==
    /\ min_interval \in 1..MaxInterval
    /\ clock \in 0..MaxInterval
    /\ lock = NoThread
    /\ last_request = 0
    /\ waiter = [t \in Threads |-> WaiterOut]
    /\ grants = <<>>
    /\ ClientIdle
    /\ PagerIdle
    /\ WriterIdle
    /\ GateIdle
    /\ HarvestIdle
    /\ CursorsIdle
    /\ StreamIdle
    /\ StoreIdle
    /\ UsersIdle
    /\ StageIdle

NextLimiter == Tick \/ \E t \in Threads : Enter(t) \/ Wake(t) \/ Record(t)

SpecLimiter == InitLimiter /\ [][NextLimiter]_vars

\* one call of quick_check on a subject with `total` records
InitGate ==
    /\ threshold \in Thresholds
    /\ total \in 0..MaxCount
    /\ answer \in {Answer(fault, shape) : fault \in GetJsonFaults, shape \in Shapes}
    /\ quick_check = QuickCheckPending
    /\ LIMIT = 1 /\ before = 0 /\ pages = <<>> /\ payloads = <<>>
    /\ calls = <<>> /\ ppc = "done" /\ page_error = FALSE
    /\ ClientIdle
    /\ WriterIdle
    /\ LimiterIdle
    /\ HarvestIdle
    /\ CursorsIdle
    /\ StreamIdle
    /\ StoreIdle
    /\ UsersIdle
    /\ StageIdle

NextGate == QuickCheck

SpecGate == InitGate /\ [][NextGate]_vars

\* the worker counts process_bet_chunk is called with
WorkerCounts == {1, 2, 3, 4}

\* one call of process_bet_chunk, with a small THRESHOLD and LIMIT
InitHarvest ==
    /\ \E n \in 0..MaxSubjects :
          /\ user_list = [i \in 1..n |-> i]
          /\ endpoint \in [1..n -> Profiles]
          /\ requests = [s \in 1..n |-> <<>>]
    /\ worker_count \in WorkerCounts
    /\ futures = <<>>
    /\ harvest = NoHarvest
    /\ hpc = "call"
    /\ threshold = 2 /\ answer = Answer("none", "objects")
    /\ quick_check = QuickCheckResult("idle", FALSE, "none")
    /\ total = 0 /\ LIMIT = 2 /\ before = 0 /\ pages = <<>> /\ payloads = <<>>
    /\ calls = <<>> /\ ppc = "done" /\ page_error = FALSE
    /\ ClientIdle
    /\ WriterIdle
    /\ LimiterIdle
    /\ CursorsIdle
    /\ StreamIdle
    /\ StoreIdle
    /\ UsersIdle
    /\ StageIdle

NextHarvest ==
    \/ Submit
    \/ \E w \in 1..MaxSubjects : GateStep(w) \/ DrainStep(w) \/ Merge(w)
    \/ ReturnChunk

SpecHarvest == InitHarvest /\ [][NextHarvest]_vars

\* subjects with no record, with one, and with three whose first or
\* second page fails
CountProfiles ==
    {Profile(0, "objects", 0), Profile(1, "objects", 0),
     Profile(3, "objects", 2), Profile(3, "objects", 3)}

\* one call of process_bet_chunk, with THRESHOLD 0 or 2, on one thread or two
InitCount ==
    /\ \E n \in 0..MaxCounted :
          /\ user_list = [i \in 1..n |-> i]
          /\ endpoint \in [1..n -> CountProfiles]
          /\ requests = [s \in 1..n |-> <<>>]
    /\ worker_count \in {1, 2}
    /\ futures = <<>>
    /\ harvest = NoHarvest
    /\ hpc = "call"
    /\ threshold \in {0, 2} /\ answer = Answer("none", "objects")
    /\ quick_check = QuickCheckResult("idle", FALSE, "none")
    /\ total = 0 /\ LIMIT = 2 /\ before = 0 /\ pages = <<>> /\ payloads = <<>>
    /\ calls = <<>> /\ ppc = "done" /\ page_error = FALSE
    /\ ClientIdle
    /\ WriterIdle
    /\ LimiterIdle
    /\ CursorsIdle
    /\ StreamIdle
    /\ StoreIdle
    /\ UsersIdle
    /\ StageIdle

SpecCount == InitCount /\ [][NextHarvest]_vars

\* two workers, each about to drain one subject
InitCursors ==
    /\ pagers = [s \in Pagers |-> Pager(0, "while", <<>>, <<>>)]
    /\ endpoint \in [Pagers -> {Profile(n, "objects", f) : n \in 0..MaxChain, f \in {0, 3}}]
    /\ LIMIT \in 1..2
    /\ user_list = <<>> /\ worker_count = 1 /\ futures = <<>>
    /\ requests = <<>> /\ harvest = NoHarvest /\ hpc = "idle"
    /\ total = 0 /\ before = 0 /\ pages = <<>> /\ payloads = <<>>
    /\ calls = <<>> /\ ppc = "done" /\ page_error = FALSE
    /\ ClientIdle
    /\ WriterIdle
    /\ LimiterIdle
    /\ GateIdle
    /\ StreamIdle
    /\ StoreIdle
    /\ UsersIdle
    /\ StageIdle

NextCursors == \E s \in Pagers : FetchPageOf(s)

SpecCursors == InitCursors /\ [][NextCursors]_vars

\* one call of stream_user_chunks on a table of 0..MaxUsers subjects
InitStream ==
    /\ \E n \in 0..MaxUsers :
          users_clean \in {t \in [1..n -> 1..MaxLabel] :
                             \A i, j \in 1..n : t[i] = t[j] => i = j}
    /\ chunk_size \in 0..MaxChunkSize
    /\ start_username \in 0..MaxLabel
    /\ result_rows = <<>>
    /\ batch = <<>>
    /\ chunks = <<>>
    /\ spc = "call"
    /\ ClientIdle
    /\ PagerIdle
    /\ WriterIdle
    /\ LimiterIdle
    /\ GateIdle
    /\ HarvestIdle
    /\ CursorsIdle
    /\ StoreIdle
    /\ UsersIdle
    /\ StageIdle

NextStream == OpenStream \/ ReadRow \/ EndStream

SpecStream == InitStream /\ [][NextStream]_vars

\* an empty table and a series of calls
InitStore ==
    /\ table_rows = [id \in StoreIds |-> NoRow]
    /\ upsert_log = <<>>
    /\ ClientIdle
    /\ PagerIdle
    /\ WriterIdle
    /\ LimiterIdle
    /\ GateIdle
    /\ HarvestIdle
    /\ CursorsIdle
    /\ StreamIdle
    /\ UsersIdle
    /\ StageIdle

NextStore == \E records \in Batches : UpsertClean(records)

SpecStore == InitStore /\ [][NextStore]_vars

\* an endpoint of `count` users, read in pages and cut into chunks
InitUsers ==
    /\ limit \in {NoLimit} \cup 0..MaxLimit
    /\ \E count \in 0..MaxStreamed, page_size \in 1..2, size \in 1..MaxChunkSize :
          user_chunks = Chunked(StreamUsers(count, page_size, 0), size)
    /\ total_users = 0
    /\ handed = <<>>
    /\ upc = "for"
    /\ ClientIdle
    /\ PagerIdle
    /\ WriterIdle
    /\ LimiterIdle
    /\ GateIdle
    /\ HarvestIdle
    /\ CursorsIdle
    /\ StreamIdle
    /\ StoreIdle
    /\ StageIdle

NextUsers == BreakAtLimit \/ IngestBatch \/ EndUsers

SpecUsers == InitUsers /\ [][NextUsers]_vars

\* a subject stream of a few chunks
InitStage ==
    /\ \E n \in 0..MaxStageChunks : stage_chunks \in [1..n -> ChunkFaults]
    /\ chunks_done = 0
    /\ stage_error = "none"
    /\ bpc = "for"
    /\ ClientIdle
    /\ PagerIdle
    /\ WriterIdle
    /\ LimiterIdle
    /\ GateIdle
    /\ HarvestIdle
    /\ CursorsIdle
    /\ StreamIdle
    /\ StoreIdle
    /\ UsersIdle

NextStage == ProcessChunk \/ CompleteStage

\* the stage is one thread of straight-line code
SpecStage == InitStage /\ [][NextStage]_vars /\ WF_vars(NextStage)

(***************************************************************************)
(* Properties of ManifoldClient._request (specification Spec).             *)
(* The log holds one entry per HTTP attempt, so Len(log) is the number of  *)
(* attempts the call has issued.                                           *)
(***************************************************************************)
Done == pc \in {"returned", "raised"}
Attempts == Len(log)
IsTransportFailure(i) == log[i].outcome.kind = "exc"
IsResponse(i) == log[i].outcome.kind = "resp"
StatusAt(i) == log[i].outcome.status
Is2xx(s) == s >= 200 /\ s < 300
Is4xx(s) == s >= 400 /\ s < 500
Is5xx(s) == s >= 500 /\ s < 600
AllFailed(k) == \A i \in 1..k : IsTransportFailure(i)

\* attempt i was followed by a sleep and the loop went on to attempt i + 1
RetriedAt(i) ==
    /\ log[i].slept
    /\ \/ Attempts > i
       \/ Attempts = i /\ pc = "for" /\ attempt = i + 1 /\ attempt <= max_retries

\* attempt i ended the call: nothing was slept and nothing was attempted after it
EndedAt(i) == Attempts = i /\ ~log[i].slept /\ Done

\* equality of two rationals
RatEq(x, y) == x[1] * y[2] = y[1] * x[2]

\* backoff_factor^(i-1), written out
ExpectedBackoff(i) == <<BackoffNum ^ (i - 1), BackoffDen ^ (i - 1)>>

\* the seconds a Retry-After text stands for
SecondsOf(text) ==
    CASE text = <<"0">> -> <<0, 1>>
      [] text = <<"1", ".", "5">> -> <<3, 2>>

\* the 429 schedule: Retry-After when the header is there, else the backoff
Expected429Sleep(headers, i) ==
    IF "Retry-After" \in DOMAIN headers
    THEN SecondsOf(headers["Retry-After"])
    ELSE ExpectedBackoff(i)

\* C3: if the transport fails on the first k attempts, k < max_retries, the
\* call is still running and goes on to attempt k + 1; if attempt k + 1 is
\* then answered with a 2xx response, the call returns that response after
\* exactly k + 1 attempts.
C3_TransientFailureAbsorbed ==
    \A k \in 0..Attempts :
        (k < max_retries /\ AllFailed(k)) =>
            /\ Attempts = k => (pc = "for" /\ attempt = k + 1)
            /\ (Attempts > k /\ IsResponse(k + 1) /\ Is2xx(StatusAt(k + 1))) =>
                  /\ pc = "returned"
                  /\ response = log[k + 1].outcome
                  /\ Attempts = k + 1

C3_Witness ==
    /\ max_retries = 5 /\ Attempts = 3 /\ AllFailed(2)
    /\ IsResponse(3) /\ StatusAt(3) = 200
    /\ pc = "returned" /\ response = log[3].outcome

\* C4 as stated: a transport that fails on every attempt makes the call
\* raise the retries-exceeded error (the RuntimeError of the loop's end)
\* after exactly max_retries attempts.
C4_AllFailedRaisesRetriesExceeded ==
    (Done /\ AllFailed(Attempts)) =>
        (pc = "raised" /\ error = "RuntimeError" /\ Attempts = max_retries)

\* C4 amended: for max_retries >= 1, a transport that fails on every attempt
\* makes the call raise the transport exception of the last attempt, after
\* exactly max_retries attempts.
C4_AllFailedRaisesTransportError ==
    (max_retries >= 1 /\ Done /\ AllFailed(Attempts)) =>
        (pc = "raised" /\ error = "RequestException" /\ Attempts = max_retries)

C4_Witness ==
    /\ max_retries = 3 /\ Attempts = 3 /\ AllFailed(3)
    /\ pc = "raised" /\ error = "RequestException"

\* C5: a transport failure on an attempt before the last is followed by a
\* sleep of backoff_factor^(attempt-1) and the next attempt; a transport
\* failure on the final attempt leaves the call with the transport
\* exception, with no sleep and no further attempt.
C5_TransportFailureHandling ==
    \A i \in 1..Attempts :
        IsTransportFailure(i) =>
            IF i < max_retries
            THEN RetriedAt(i) /\ RatEq(log[i].sleep_for, ExpectedBackoff(i))
            ELSE /\ i = max_retries
                 /\ EndedAt(i)
                 /\ pc = "raised"
                 /\ error = "RequestException"
                 /\ response = NoResponse

C5_Witness ==
    /\ max_retries = 3 /\ Attempts = 3 /\ AllFailed(3)
    /\ log[2].slept /\ log[2].sleep_for = <<3, 2>>
    /\ ~log[3].slept /\ error = "RequestException"

\* C6: for max_retries >= 1 a call never issues more than max_retries
\* attempts, and a finished call has issued at least one.
C6_AttemptBounds ==
    max_retries >= 1 =>
        /\ Attempts <= max_retries
        /\ Done => Attempts >= 1

C6_Witness ==
    /\ max_retries = 4 /\ Done /\ Attempts = 4
    /\ IsTransportFailure(1) /\ IsResponse(2) /\ StatusAt(2) = 429
    /\ IsResponse(3) /\ StatusAt(3) = 503

\* C7: when every one of the max_retries attempts is answered with 429 or
\* 5xx, the call ends by raising the retries-exceeded error and hands no
\* response to the caller.
C7_ExhaustedBudgetRaises ==
    ( /\ Done
      /\ max_retries >= 1
      /\ Attempts = max_retries
      /\ \A i \in 1..Attempts :
            IsResponse(i) /\ (StatusAt(i) = 429 \/ Is5xx(StatusAt(i))) )
    => (pc = "raised" /\ error = "RuntimeError" /\ response = NoResponse)

\* C8 as stated: every 429 response is followed by a sleep (Retry-After when
\* present, else backoff_factor^(attempt-1)) and by the next attempt.
C8_Every429Retried ==
    \A i \in 1..Attempts :
        (IsResponse(i) /\ StatusAt(i) = 429) =>
            /\ RetriedAt(i)
            /\ RatEq(log[i].sleep_for, Expected429Sleep(log[i].outcome.headers, i))

\* C8 amended: a 429 response received on an attempt before the last is
\* followed by a sleep (Retry-After when present, else
\* backoff_factor^(attempt-1)) and by the next attempt.
C8_429RetriedBeforeLast ==
    \A i \in 1..Attempts :
        (IsResponse(i) /\ StatusAt(i) = 429 /\ i < max_retries) =>
            /\ RetriedAt(i)
            /\ RatEq(log[i].sleep_for, Expected429Sleep(log[i].outcome.headers, i))

C8_Witness ==
    /\ Attempts >= 3
    /\ IsResponse(1) /\ StatusAt(1) = 429
    /\ log[1].outcome.headers = ("Retry-After" :> <<"1", ".", "5">>)
    /\ log[1].slept /\ log[1].sleep_for = <<15, 10>>
    /\ IsResponse(2) /\ StatusAt(2) = 429 /\ log[2].outcome.headers = NoHeaders
    /\ log[2].slept /\ log[2].sleep_for = <<3, 2>>

\* C9 as stated: the sleep before the retry of a 5xx response equals the
\* sleep a 429 response with the same headers would get on that attempt.
C9_5xxSleepsLike429 ==
    \A i \in 1..Attempts :
        (IsResponse(i) /\ Is5xx(StatusAt(i)) /\ log[i].slept) =>
            RatEq(log[i].sleep_for, Expected429Sleep(log[i].outcome.headers, i))

\* C9 amended: a 5xx response received on an attempt before the last is
\* retried after a sleep of backoff_factor^(attempt-1), whatever its
\* headers; that is the sleep of a 429 response on the same attempt that
\* carries no Retry-After header.
C9_5xxSleepsBackoff ==
    \A i \in 1..Attempts :
        (IsResponse(i) /\ Is5xx(StatusAt(i)) /\ i < max_retries) =>
            /\ RetriedAt(i)
            /\ RatEq(log[i].sleep_for, ExpectedBackoff(i))
            /\ RatEq(log[i].sleep_for, Expected429Sleep(NoHeaders, i))

C9_Witness ==
    /\ Attempts >= 2
    /\ IsResponse(2) /\ StatusAt(2) = 503
    /\ log[2].outcome.headers = ("Retry-After" :> <<"0">>)
    /\ log[2].slept /\ log[2].sleep_for = <<3, 2>>

\* C10: a 2xx response, or a 4xx response other than 429, ends the call on
\* the attempt that received it: it is the response returned, nothing is
\* slept and no attempt follows, whatever the attempt index.
C10_ImmediateReturn ==
    \A i \in 1..Attempts :
        ( /\ IsResponse(i)
          /\ \/ Is2xx(StatusAt(i))
             \/ Is4xx(StatusAt(i)) /\ StatusAt(i) # 429 )
        => (EndedAt(i) /\ pc = "returned" /\ response = log[i].outcome /\ error = "none")

C10_Witness ==
    /\ max_retries = 4 /\ Attempts = 2
    /\ IsResponse(1) /\ StatusAt(1) = 503
    /\ IsResponse(2) /\ StatusAt(2) = 404
    /\ pc = "returned" /\ response = log[2].outcome

(***************************************************************************)
(* Properties of the pending-batches loop (specification SpecWriter).      *)
(***************************************************************************)
RecordIds == {clean_records[i] : i \in 1..Len(clean_records)}

\* C1: when the store rejects exactly the batches that hold a record of
\* `bad`, the loop ends with every other record persisted, every record of
\* `bad` dropped, an upserted count of n - |bad| and a failed count of |bad|.
C1_BisectionIsolatesBadRecords ==
    wpc = "done" =>
        /\ bets_clean = RecordIds \ bad
        /\ dropped = bad
        /\ bets_upserted_this_batch = Len(clean_records) - Cardinality(bad)
        /\ failed_bets_this_batch = Cardinality(bad)

C1_Witness ==
    /\ wpc = "done" /\ Len(clean_records) = 10 /\ bad = {7}
    /\ max_records_per_upsert = 0
    /\ bets_upserted_this_batch = 9 /\ failed_bets_this_batch = 1
    /\ dropped = {7} /\ Len(write_log) > 1

(***************************************************************************)
(* Properties of the paginator (specification SpecPaginator).              *)
(***************************************************************************)
CeilDiv(n, p) == (n + p - 1) \div p

\* C2: a pagination that no get_json call failed ends with the endpoint's
\* records 1..total as its payloads, each once and in order, in
\* ceil(total/LIMIT) pages, the last page holding total mod LIMIT records
\* (LIMIT when LIMIT divides total and total > 0).
C2_DrainYieldsEveryRecordOnce ==
    (ppc = "done" /\ ~page_error) =>
        /\ payloads = [i \in 1..total |-> [id |-> i]]
        /\ Len(pages) = CeilDiv(total, LIMIT)
        /\ total > 0 =>
              Len(Last(pages)) = IF total % LIMIT = 0 THEN LIMIT ELSE total % LIMIT

C2_Witness ==
    /\ ppc = "done" /\ ~page_error
    /\ total = 6 /\ LIMIT = 3
    /\ Len(pages) = 2 /\ Len(calls) = 3 /\ Len(payloads) = 6

(***************************************************************************)
(* Properties of the two clients and of get_json (specification            *)
(* SpecGetJson).                                                           *)
(***************************************************************************)
CountOf(seq, x) == Cardinality({j \in 1..Len(seq) : seq[j] = x})

\* C11: every HTTP request of a call is preceded by a rate-limiter
\* acquisition of its own: each "request" event directly follows a "wait"
\* event, and the call has made as many acquisitions as attempts.
C11_EveryAttemptAcquires ==
    /\ CountOf(events, "request") = Attempts
    /\ CountOf(events, "wait") = Attempts
    /\ \A j \in 1..Len(events) :
          events[j] = "request" => (j > 1 /\ events[j - 1] = "wait")

\* C13: get_json returns the decoded body when the final response is 2xx
\* (and its body is JSON), and raises an error that carries the response
\* for every final response whose status is not 2xx.
C13_GetJsonRaisesForNon2xx ==
    (pc = "returned" /\ get_json.state \in {"returned", "raised"}) =>
        IF Is2xx(response.status)
        THEN get_json.body_is_json => get_json.state = "returned"
        ELSE /\ get_json.state = "raised"
             /\ get_json.error = "HTTPError"
             /\ get_json.carried = response

(***************************************************************************)
(* Properties of RateLimiter.wait (specification SpecLimiter).             *)
(***************************************************************************)
InWait == {t \in Threads : waiter[t].at # "out"}

\* C12: at most one thread at a time is between reading and recording the
\* last-grant time; the time a grant records was read after its sleep; any
\* two consecutive grants are at least min_interval apart; hence n
\* acquisitions of one thread take at least (n - 1) * min_interval from
\* the first call to the last return.
C12_GlobalThrottle ==
    /\ Cardinality(InWait) <= 1
    /\ \A t \in InWait : lock = t
    /\ \A i \in 1..Len(grants) :
          grants[i].sleep_for > 0 =>
             grants[i].time >= grants[i].called_at + grants[i].sleep_for
    /\ grants # <<>> => last_request = grants[Len(grants)].time
    /\ \A i \in 1..(Len(grants) - 1) :
          grants[i + 1].time - grants[i].time >= min_interval
    /\ \A i, j \in 1..Len(grants) :
          (i < j /\ grants[i].thread = grants[j].thread) =>
             grants[j].returned_at - grants[i].called_at >=
                CountOf([k \in 1..(j - i) |-> grants[i + k].thread], grants[i].thread)
                   * min_interval

C12_Witness ==
    /\ min_interval = 2
    /\ Len(grants) = 3
    /\ \A i \in 1..3 : grants[i].thread = "t1"
    /\ grants[3].returned_at - grants[1].called_at = 4

(***************************************************************************)
(* Properties of quick_check (specification SpecGate).                     *)
(***************************************************************************)
GateDone == quick_check.at \in {"returned", "raised"}
GateAnswered == answer.fault = "none" /\ answer.shape # "null"

\* C14: quick_check makes exactly one get_json call, with limit =
\* threshold + 1 and no before cursor, and, when the call answers with a
\* list, returns TRUE if and only if the endpoint holds at least
\* `threshold` records for the subject.
C14_GateIsThresholdTest ==
    GateDone =>
       /\ calls = <<[limit |-> threshold + 1, before |-> 0]>>
       /\ GateAnswered =>
             /\ quick_check.at = "returned"
             /\ quick_check.result <=> (total >= threshold)

C14_Witness ==
    /\ GateDone /\ GateAnswered
    /\ threshold = 50 /\ total = 50
    /\ quick_check.result

\* C15: whenever the get_json call of quick_check raises (404, another
\* HTTP error, any other exception), quick_check returns FALSE and does
\* not raise.
C15_GateIsSoft ==
    (GateDone /\ answer.fault # "none") =>
       /\ quick_check.at = "returned"
       /\ quick_check.result = FALSE
       /\ quick_check.error = "none"

C15_Witness ==
    /\ GateDone
    /\ answer.fault = "Exception"
    /\ total = 51 /\ threshold = 50
    /\ quick_check = [at |-> "returned", result |-> FALSE, error |-> "none"]

(***************************************************************************)
(* Properties of process_bet_chunk (specification SpecHarvest).            *)
(***************************************************************************)
Range(seq) == {seq[i] : i \in 1..Len(seq)}
BagOf(seq) == [x \in Range(seq) |-> CountOf(seq, x)]
Returned == hpc = "returned"

\* what the subject's answers make of it, read off its profile
Passes(s) ==
    /\ endpoint[s].count >= threshold
    /\ endpoint[s].shape # "null"
    /\ endpoint[s].fault_at # 1
Yields(s) ==
    /\ Passes(s) /\ endpoint[s].count > 0
    /\ endpoint[s].shape = "objects" /\ endpoint[s].fault_at # 2
ExpectedOf(s) ==
    IF Yields(s) THEN [j \in 1..endpoint[s].count |-> [userId |-> s, id |-> j]]
    ELSE <<>>
ExpectedPages(s) ==
    IF endpoint[s].fault_at = 2 \/ endpoint[s].shape = "scalars" THEN 1
    ELSE endpoint[s].count \div LIMIT + 1
RECURSIVE ExpectedPayloads(_, _)
ExpectedPayloads(chunk, k) ==
    IF k = 0 THEN <<>> ELSE ExpectedPayloads(chunk, k - 1) \o ExpectedOf(chunk[k])
ExpectedCount(chunk, k) == Cardinality({i \in 1..k : Yields(chunk[i])})

\* C16: whatever the worker count and the interleaving of the workers,
\* process_bet_chunk returns the multiset of payloads and the qualifying
\* count that _process_users returns for the whole list, which is exactly
\* what it returns with worker_count = 1.
C16_WorkerCountIndependent ==
    Returned =>
       /\ BagOf(harvest.payloads) = BagOf(ProcessUsers(user_list).payloads)
       /\ harvest.processed_users = ProcessUsers(user_list).processed_users
       /\ worker_count = 1 => harvest.payloads = ProcessUsers(user_list).payloads

C16_Witness ==
    /\ Returned
    /\ worker_count = 4 /\ Len(user_list) = 4
    /\ harvest.processed_users = 3
    /\ harvest.payloads # ProcessUsers(user_list).payloads

\* C17: in the parallel branch the list is cut into worker_count
\* contiguous sub-chunks of at most ceil(len / worker_count) subjects
\* (stated for lists of at least worker_count subjects).
C17_WorkerCountSubChunks ==
    (hpc = "running" /\ Parallel /\ Len(user_list) >= worker_count) =>
       /\ Len(futures) = worker_count
       /\ \A w \in 1..Len(futures) :
             /\ futures[w].chunk # <<>>
             /\ Len(futures[w].chunk) <= CeilDiv(Len(user_list), worker_count)

\* C17 (as the code has it): in the parallel branch the list is cut into
\* contiguous sub-chunks of ceil(len / worker_count) subjects, the last
\* one holding what is left; they are ceil(len / size) in number, never
\* more than worker_count, and each is one submitted run.
C17_SubChunksOfCeilSize ==
    (hpc = "running" /\ Parallel) =>
       LET len == Len(user_list)
           size == CeilDiv(len, worker_count)
           number == CeilDiv(len, size)
       IN  /\ Len(futures) = number
           /\ number <= worker_count
           /\ \A w \in 1..number :
                 /\ Len(futures[w].chunk) = IF w < number THEN size
                                            ELSE len - (number - 1) * size
                 /\ futures[w].chunk # <<>>
                 /\ \A k \in 1..Len(futures[w].chunk) :
                       futures[w].chunk[k] = user_list[(w - 1) * size + k]

C17_Witness ==
    /\ hpc = "running"
    /\ worker_count = 3 /\ Len(user_list) = 4
    /\ Len(futures) = 2
    /\ futures[1].chunk = <<1, 2>> /\ futures[2].chunk = <<3, 4>>

Perms(n) == {p \in [1..n -> 1..n] : \A i, j \in 1..n : p[i] = p[j] => i = j}
RECURSIVE ConcatInOrder(_, _)
ConcatInOrder(order, k) ==
    IF k = 0 THEN <<>>
    ELSE ConcatInOrder(order, k - 1) \o futures[order[k]].payloads
RECURSIVE SumProcessed(_)
SumProcessed(k) == IF k = 0 THEN 0 ELSE SumProcessed(k - 1) + futures[k].processed_users

\* C18: a future is merged only once its run has ended, and in the
\* parallel branch process_bet_chunk returns only when every run has
\* ended and been merged; the returned list is the concatenation, in
\* some order of the workers, of the workers' whole results.
C18_Barrier ==
    /\ \A w \in 1..Len(futures) : futures[w].merged => Finished(futures[w])
    /\ (Returned /\ Parallel) =>
          /\ \A w \in 1..Len(futures) :
                /\ Finished(futures[w])
                /\ futures[w].merged
                /\ futures[w].payloads = ExpectedPayloads(futures[w].chunk,
                                                          Len(futures[w].chunk))
          /\ \E order \in Perms(Len(futures)) :
                harvest.payloads = ConcatInOrder(order, Len(futures))
          /\ harvest.processed_users = SumProcessed(Len(futures))

C18_Witness ==
    /\ Returned /\ Parallel
    /\ Len(futures) = 3
    /\ \A w \in 1..3 : futures[w].payloads # <<>>
    /\ harvest.payloads = ConcatInOrder(<<3, 1, 2>>, 3)

\* C19: for every subject the first request is the gate's and the rest
\* are page requests; a subject the gate turns down gets no page request
\* and leaves the run's payloads and count as they were; a subject the
\* gate lets through is drained to the end of its pagination and all the
\* payloads drained are appended.
C19_GateThenDrain ==
    \A w \in 1..Len(futures) :
       LET f == futures[w]
       IN  /\ f.payloads = ExpectedPayloads(f.chunk, f.idx - 1)
           /\ f.processed_users = ExpectedCount(f.chunk, f.idx - 1)
           /\ \A k \in 1..Len(f.chunk) :
                 LET s == f.chunk[k]
                 IN  /\ requests[s] # <<>> =>
                           /\ requests[s][1] = "gate"
                           /\ \A i \in 2..Len(requests[s]) : requests[s][i] = "page"
                     /\ (k < f.idx /\ ~Passes(s)) => requests[s] = <<"gate">>
                     /\ (k < f.idx /\ Passes(s)) =>
                           Len(requests[s]) = 1 + ExpectedPages(s)
                     /\ (k = f.idx /\ f.phase = "drain") =>
                           Passes(s) /\ requests[s] = <<"gate">>
                     /\ k > f.idx => requests[s] = <<>>

C19_Witness ==
    /\ Returned
    /\ Len(user_list) = 2 /\ worker_count = 1
    /\ ~Passes(1) /\ Yields(2)
    /\ requests = <<(<<"gate">>), (<<"gate", "page", "page">>)>>
    /\ harvest.payloads = <<[userId |-> 2, id |-> 1], [userId |-> 2, id |-> 2],
                            [userId |-> 2, id |-> 3]>>

Crashes(s) ==
    \/ endpoint[s].shape = "null" /\ endpoint[s].fault_at # 1
    \/ endpoint[s].shape = "scalars" /\ Passes(s) /\ endpoint[s].fault_at # 2

\* C20: an unexpected error in the gate or the drain of one subject ends
\* neither its run nor the call: every subject is processed, no run and
\* no call ends by raising, and the call returns the payloads of every
\* other subject.
C20_SubjectIsolation ==
    /\ hpc # "raised"
    /\ \A w \in 1..Len(futures) : futures[w].error = "none"
    /\ Returned =>
          /\ \A s \in 1..Len(user_list) :
                /\ requests[s] # <<>>
                /\ Range(ExpectedOf(s)) \subseteq Range(harvest.payloads)
          /\ harvest.processed_users = ExpectedCount(user_list, Len(user_list))

C20_Witness ==
    /\ Returned
    /\ Len(user_list) = 4 /\ worker_count = 2
    /\ endpoint[1].shape = "null" /\ Crashes(1) /\ Yields(2)
    /\ endpoint[3].shape = "scalars" /\ Crashes(3) /\ Yields(4)
    /\ harvest.processed_users = 2
    /\ Len(harvest.payloads) = 6

(***************************************************************************)
(* Properties of concurrent paginations (specification SpecCursors).       *)
(***************************************************************************)
\* C21: every call a generator makes for subject s carries s and the page
\* size; its first call carries no before, and each later call carries
\* the id of the last payload of the page the call before it returned
\* for s, whatever the other generator is doing.
C21_CursorChain ==
    \A s \in Pagers :
       \A k \in 1..Len(pagers[s].calls) :
          LET call == pagers[s].calls[k]
          IN  /\ call.userId = s
              /\ call.limit = LIMIT
              /\ k = 1 => call.before = 0
              /\ k > 1 =>
                    /\ k - 1 <= Len(pagers[s].pages)
                    /\ Last(pagers[s].pages[k - 1]).userId = s
                    /\ call.before = Last(pagers[s].pages[k - 1]).id

C21_Witness ==
    /\ LIMIT = 1
    /\ Len(pagers[1].calls) = 4 /\ pagers[1].calls[4].before = 3
    /\ Len(pagers[2].calls) = 2 /\ pagers[2].calls[2].before = 1
    /\ pagers[1].at = "while" /\ pagers[2].at = "while"

(***************************************************************************)
(* Properties of one pagination, call by call (specification              *)
(* SpecPaginator).                                                         *)
(***************************************************************************)
\* the calls that were answered: all of them, but the last one of a
\* pagination that an error ended
Answered == 1..(IF page_error THEN Len(calls) - 1 ELSE Len(calls))

\* what the endpoint holds after the cursor of call k, up to the page size
ResultOf(k) ==
    [j \in 1..Min(LIMIT, total - calls[k].before) |-> [id |-> calls[k].before + j]]

\* C22: an empty result ends the pagination and emits no page; a
\* non-empty result shorter than the page size is emitted and no call
\* follows it; a result of exactly the page size is emitted and the next
\* call carries the id of its last element.
C22_StopConditions ==
    /\ Len(pages) <= Len(calls)
    /\ \A k \in Answered :
          LET result == ResultOf(k)
              is_last == k = Len(calls)
          IN  /\ result = <<>> =>
                    is_last /\ ppc = "done" /\ Len(pages) = k - 1
              /\ result # <<>> => Len(pages) >= k /\ pages[k] = result
              /\ (result # <<>> /\ Len(result) < LIMIT) =>
                    is_last /\ ppc = "done" /\ Len(pages) = k
              /\ Len(result) = LIMIT =>
                    IF is_last
                    THEN ppc = "while" /\ before = result[LIMIT].id
                    ELSE calls[k + 1].before = result[LIMIT].id

C22_Witness ==
    /\ ppc = "done" /\ ~page_error
    /\ total = 4 /\ LIMIT = 2
    /\ Len(calls) = 3 /\ Len(pages) = 2
    /\ calls[2].before = 2 /\ calls[3].before = 4

\* C23: an error of the k-th get_json call ends the pagination at once
\* and keeps the pages of calls 1..k-1: the payloads fetch_all_bet_payloads
\* returns are exactly those of these pages.
C23_ErrorKeepsEarlierPages ==
    page_error =>
       LET k == Len(calls)
       IN  /\ ppc = "done"
           /\ Len(pages) = k - 1
           /\ \A i \in 1..(k - 1) : pages[i] = ResultOf(i) /\ Len(pages[i]) = LIMIT
           /\ payloads = [j \in 1..((k - 1) * LIMIT) |-> [id |-> j]]

C23_Witness ==
    /\ page_error
    /\ total = 7 /\ LIMIT = 2
    /\ Len(calls) = 3 /\ Len(payloads) = 4

\* C24: the caller of the drain can tell a harvest that an error ended
\* from one that reached the end of the stream: what
\* fetch_all_bet_payloads returns after an error is nothing it returns
\* when the stream ends.
C24_ErrorIsSurfaced ==
    (ppc = "done" /\ page_error) =>
       \A n \in 0..MaxTotal : payloads # [j \in 1..n |-> [id |-> j]]

\* C25: against an endpoint holding `total` records a pagination makes at
\* most floor(total / LIMIT) + 1 get_json calls, and is over when it has
\* made that many.
C25_Finite ==
    /\ Len(calls) <= total \div LIMIT + 1
    /\ Len(calls) = total \div LIMIT + 1 => ppc = "done"

C25_Witness ==
    /\ ppc = "done" /\ ~page_error
    /\ total = 7 /\ LIMIT = 1
    /\ Len(calls) = 8

(***************************************************************************)
(* Properties of stream_user_chunks (specification SpecStream).            *)
(***************************************************************************)
RECURSIVE Flatten(_)
Flatten(seqs) == IF seqs = <<>> THEN <<>> ELSE Head(seqs) \o Flatten(Tail(seqs))

NumUsers == Cardinality(DOMAIN users_clean)

\* the rows of the ids from..NumUsers, in ascending id order
RowsFrom(from) == [k \in 1..(NumUsers - from + 1) |-> <<from + k - 1, users_clean[from + k - 1]>>]

StreamDone == spc = "done"

\* C26: with no start key the chunks, put end to end, are the rows of the
\* whole table in ascending id order, each subject once.
C26_WholeTableOnce ==
    (StreamDone /\ start_username = 0) => Flatten(chunks) = RowsFrom(1)

C26_Witness ==
    /\ StreamDone /\ start_username = 0
    /\ NumUsers = 4 /\ chunk_size = 3
    /\ Len(chunks) = 2

\* every chunk but the last holds exactly `size` items, and the last one
\* between 1 and `size`
WellSized(chunked, size, finished) ==
    \A k \in 1..Len(chunked) :
       \/ Len(chunked[k]) = size
       \/ k = Len(chunked) /\ finished /\ Len(chunked[k]) \in 1..(size - 1)

\* C27: every chunk stream_user_chunks yields, and every chunk _chunked
\* yields, holds exactly chunk_size items, except the final chunk, which
\* holds at least one and fewer.
C27_ChunkSizes ==
    /\ WellSized(chunks, chunk_size, StreamDone)
    /\ chunk_size >= 1 => WellSized(Chunked(RowsFrom(1), chunk_size), chunk_size, TRUE)
    /\ Len(batch) < Max(chunk_size, 1)

C27_Witness ==
    /\ StreamDone
    /\ chunk_size = 2 /\ Len(chunks) = 2
    /\ Len(chunks[1]) = 2 /\ Len(chunks[2]) = 1
    /\ Len(Chunked(RowsFrom(1), chunk_size)) = 2

C29_ResumeAtNextLabel ==
    (/\ StreamDone /\ start_username # 0
     /\ \A i \in DOMAIN users_clean : users_clean[i] # start_username) =>
       LET later == {i \in DOMAIN users_clean : users_clean[i] > start_username}
       IN  IF later = {} THEN Flatten(chunks) = <<>>
           ELSE Flatten(chunks) = RowsFrom(CHOOSE i \in later : \A o \in later : i <= o)

(***************************************************************************)
(* Properties of the steps of the pending-batches loop (specification     *)
(* SpecWriter).                                                            *)
(***************************************************************************)
Rejected(record_batch) == \E i \in 1..Len(record_batch) : record_batch[i] \in bad
Holds(record_batch, record) == \E i \in 1..Len(record_batch) : record_batch[i] = record
Lower(record_batch) == SubSeq(record_batch, 1, Len(record_batch) \div 2)
Upper(record_batch) ==
    SubSeq(record_batch, Len(record_batch) \div 2 + 1, Len(record_batch))
WrittenAfter(i, record_batch) ==
    \E j \in (i + 1)..Len(write_log) : write_log[j] = record_batch
Pending(record_batch) ==
    \E j \in 1..Len(pending_batches) : pending_batches[j] = record_batch

\* one iteration of the loop whose write is rejected
C30_Step ==
    (wpc = "while" /\ pending_batches # <<>> /\ Rejected(Last(pending_batches))) =>
       LET record_batch == Last(pending_batches)
           m == Len(record_batch)
           others == SubSeq(pending_batches, 1, Len(pending_batches) - 1)
       IN  /\ bets_clean' = bets_clean
           /\ bets_upserted_this_batch' = bets_upserted_this_batch
           /\ IF m = 1
              THEN /\ dropped' = dropped \cup {record_batch[1]}
                   /\ failed_bets_this_batch' = failed_bets_this_batch + 1
                   /\ pending_batches' = others
              ELSE /\ Lower(record_batch) # <<>> /\ Upper(record_batch) # <<>>
                   /\ Lower(record_batch) \o Upper(record_batch) = record_batch
                   /\ pending_batches' =
                         others \o <<Upper(record_batch), Lower(record_batch)>>
                   /\ dropped' = dropped
                   /\ failed_bets_this_batch' = failed_bets_this_batch

\* what became of the rejected writes made so far
C30_Retries ==
    \A i \in 1..Len(write_log) :
       LET record_batch == write_log[i]
       IN  Rejected(record_batch) =>
              IF Len(record_batch) = 1
              THEN /\ \A j \in (i + 1)..Len(write_log) :
                         ~Holds(write_log[j], record_batch[1])
                   /\ \A j \in 1..Len(pending_batches) :
                         ~Holds(pending_batches[j], record_batch[1])
              ELSE /\ WrittenAfter(i, Lower(record_batch)) \/ Pending(Lower(record_batch))
                   /\ WrittenAfter(i, Upper(record_batch)) \/ Pending(Upper(record_batch))
                   /\ wpc = "done" =>
                         /\ WrittenAfter(i, Lower(record_batch))
                         /\ WrittenAfter(i, Upper(record_batch))

\* C30: a rejected batch of one record is dropped, counted as failed and
\* never written again; a rejected batch of m >= 2 records is split at
\* floor(m / 2) into two non-empty halves, both are put on the work list,
\* and each is written again on its own.
C30_BisectionStep == []C30_Retries /\ [][C30_Step]_vars

C30_Witness ==
    /\ wpc = "done"
    /\ Len(clean_records) = 5 /\ bad = {clean_records[3]}
    /\ max_records_per_upsert = 0
    /\ Len(write_log) = 5
    /\ write_log[1] = clean_records
    /\ write_log[2] = SubSeq(clean_records, 1, 2)
    /\ write_log[3] = SubSeq(clean_records, 3, 5)
    /\ write_log[4] = <<clean_records[3]>>
    /\ write_log[5] = SubSeq(clean_records, 4, 5)
    /\ dropped = {clean_records[3]} /\ failed_bets_this_batch = 1

(***************************************************************************)
(* Termination of the pending-batches loop (specification SpecWriterFair). *)
(***************************************************************************)
RECURSIVE SumLen(_)
SumLen(seqs) == IF seqs = <<>> THEN 0 ELSE Len(Head(seqs)) + SumLen(Tail(seqs))

\* a batch of m records costs at most 2m - 1 writes, itself and its halves
C31_WritesBounded ==
    /\ Len(write_log) + 2 * SumLen(pending_batches) - Len(pending_batches)
          <= 2 * Len(clean_records) - 1
    /\ \A i \in 1..Len(write_log) :
          /\ (Rejected(write_log[i]) /\ Len(write_log[i]) > 1 /\ i < Len(write_log)) =>
                Len(write_log[i + 1]) < Len(write_log[i])
          /\ \A j \in 1..Len(write_log) : i # j => write_log[i] # write_log[j]

\* C31: whatever records the store rejects, the work list becomes empty
\* and the loop ends after finitely many writes, at most 2n - 1 for n
\* records: what is pushed back is smaller than the batch that failed,
\* and a batch of one record is not pushed back.
C31_BisectionTerminates == <>(wpc = "done") /\ []C31_WritesBounded

C31_Witness ==
    /\ wpc = "done"
    /\ Len(clean_records) = 4 /\ bad = {1, 2, 3, 4}
    /\ max_records_per_upsert = 0
    /\ Len(write_log) = 7

(***************************************************************************)
(* The size of a statement (specification SpecWriter).                     *)
(***************************************************************************)
\* the limits the configured parameter counts give: 10, 26, 80, 130 over 26
\* columns are max(1, 0), 1, 3 and 5
ConfiguredLimits == {1, 3, 5}

\* the batches of `k` records that cut 1..n in order, the last one shorter
PreSplit(n, k) ==
    [b \in 1..((n + k - 1) \div k) |->
        [j \in 1..(IF b * k <= n THEN k ELSE n - (b - 1) * k) |-> (b - 1) * k + j]]

\* C32: with a parameter limit configured, every batch handed to the
\* store, first attempts and retries alike, holds between 1 and
\* max(1, max_params // column_count) records, and a larger chunk is cut
\* into batches of that limit before the first write.
C32_StatementSizeBound ==
    max_records_per_upsert # 0 =>
       /\ max_records_per_upsert \in ConfiguredLimits
       /\ \A i \in 1..Len(write_log) :
             /\ Len(write_log[i]) >= 1
             /\ Len(write_log[i]) <= max_records_per_upsert
       /\ \A i \in 1..Len(pending_batches) :
             /\ Len(pending_batches[i]) >= 1
             /\ Len(pending_batches[i]) <= max_records_per_upsert
       /\ (wpc = "while" /\ write_log = <<>> /\ Len(clean_records) > max_records_per_upsert) =>
             pending_batches = PreSplit(Len(clean_records), max_records_per_upsert)

C32_Witness ==
    /\ wpc = "done"
    /\ max_records_per_upsert = 3
    /\ Len(clean_records) = 10
    /\ bad = {5}
    /\ \E i \in 1..Len(write_log) : Rejected(write_log[i]) /\ Len(write_log[i]) = 3
    /\ \E i \in 1..Len(write_log) : write_log[i] = <<5>>

(***************************************************************************)
(* Conservation of the chunk's records (specification SpecWriter).         *)
(***************************************************************************)
\* the number of pending batches that hold record r
PendingCount(r) ==
    Cardinality({i \in 1..Len(pending_batches) : Holds(pending_batches[i], r)})

\* the number of accepted writes that hold record r
AcceptedCount(r) ==
    Cardinality({i \in 1..Len(write_log) :
                    ~Rejected(write_log[i]) /\ Holds(write_log[i], r)})

\* C35: while the loop runs, each record of the chunk is in exactly one
\* of a pending batch, the written records and the dropped records; at
\* the exit upserted + failed = the chunk's size, and no record is
\* written with success twice.
C35_RecordConservation ==
    /\ wpc # "chunk" =>
          \A r \in RecordIds :
             /\ PendingCount(r) + (IF r \in bets_clean THEN 1 ELSE 0)
                   + (IF r \in dropped THEN 1 ELSE 0) = 1
             /\ AcceptedCount(r) = (IF r \in bets_clean THEN 1 ELSE 0)
    /\ wpc # "chunk" =>
          /\ bets_upserted_this_batch = Cardinality(bets_clean)
          /\ failed_bets_this_batch = Cardinality(dropped)
    /\ wpc = "done" =>
          /\ pending_batches = <<>>
          /\ bets_upserted_this_batch + failed_bets_this_batch = Len(clean_records)

C35_Witness ==
    /\ wpc = "done"
    /\ Len(clean_records) = 5
    /\ bets_upserted_this_batch = 3
    /\ failed_bets_this_batch = 2
    /\ Len(write_log) > 5

RECURSIVE ChunksJoined(_)
ChunksJoined(k) == IF k = 0 THEN <<>> ELSE ChunksJoined(k - 1) \o futures[k].chunk

\* C38: the sub-chunks submitted to the pool are non-empty and pairwise
\* disjoint, joined in their order they give back the subject list, each
\* holds at most ceil(len / worker_count) subjects, and there are at most
\* worker_count of them.
C38_SubChunksPartition ==
    (hpc # "call" /\ Parallel) =>
       /\ ChunksJoined(Len(futures)) = user_list
       /\ Len(futures) >= 1
       /\ Len(futures) <= worker_count
       /\ \A w \in 1..Len(futures) :
             /\ futures[w].chunk # <<>>
             /\ worker_count * Len(futures[w].chunk) < Len(user_list) + worker_count
       /\ \A v, w \in 1..Len(futures) :
             v # w => Range(futures[v].chunk) \cap Range(futures[w].chunk) = {}

C38_Witness ==
    /\ hpc = "returned"
    /\ worker_count = 2 /\ Len(user_list) = 3
    /\ Len(futures) = 2
    /\ futures[1].chunk = <<1, 2>> /\ futures[2].chunk = <<3>>

(***************************************************************************)
(* The qualifying count (specification SpecCount).                         *)
(***************************************************************************)
\* the gate's answer for a subject whose bodies are lists of objects
GateTrue(s) == endpoint[s].count >= threshold /\ endpoint[s].fault_at # 1

\* the records the drain hands back: the pages before the failing call
DrainGives(s) ==
    IF endpoint[s].fault_at >= 2
    THEN Min(endpoint[s].count, (endpoint[s].fault_at - 2) * LIMIT)
    ELSE endpoint[s].count

PayloadsOf(s) ==
    Cardinality({k \in 1..Len(harvest.payloads) : harvest.payloads[k].userId = s})

\* C37: the count process_bet_chunk returns is the number of subjects
\* whose gate was true and whose drain gave at least one payload; a
\* subject with gate true and an empty drain is not counted, one whose
\* drain stopped after a page is.
C37_QualifyingCount ==
    Returned =>
       /\ harvest.processed_users =
             Cardinality({s \in Range(user_list) : GateTrue(s) /\ DrainGives(s) >= 1})
       /\ harvest.processed_users =
             Cardinality({s \in Range(user_list) : PayloadsOf(s) >= 1})
       /\ \A s \in Range(user_list) :
             PayloadsOf(s) = IF GateTrue(s) THEN DrainGives(s) ELSE 0

C37_Witness ==
    /\ Returned
    /\ threshold = 0 /\ worker_count = 2
    /\ endpoint = <<Profile(0, "objects", 0), Profile(3, "objects", 2),
                    Profile(3, "objects", 3)>>
    /\ Len(requests[1]) = 2 /\ Len(requests[2]) = 2 /\ Len(requests[3]) = 3
    /\ harvest.processed_users = 1
    /\ PayloadsOf(3) = 2

(***************************************************************************)
(* The fallback of the resume (specification SpecStream).                  *)
(***************************************************************************)
Emitted == {Flatten(chunks)[k] : k \in 1..Len(Flatten(chunks))}

\* C39: when no stored subject has the username start_username, the
\* stream is the rows whose username sorts strictly after it, each once,
\* in ascending id order; a row of a larger id whose username does not
\* sort after start_username is left out.
C39_FallbackIsFilter ==
    (/\ StreamDone /\ start_username # 0
     /\ \A i \in DOMAIN users_clean : users_clean[i] # start_username) =>
       /\ Emitted = {<<i, users_clean[i]>> :
                       i \in {j \in DOMAIN users_clean : users_clean[j] > start_username}}
       /\ \A k \in 1..(Len(Flatten(chunks)) - 1) :
             Flatten(chunks)[k][1] < Flatten(chunks)[k + 1][1]
       /\ \A i \in DOMAIN users_clean :
             users_clean[i] <= start_username =>
                \A k \in 1..Len(Flatten(chunks)) : Flatten(chunks)[k][1] # i

C39_Witness ==
    /\ StreamDone
    /\ users_clean = <<3, 1, 4>> /\ start_username = 2 /\ chunk_size = 1
    /\ chunks = << <<(<<1, 3>>)>>, <<(<<3, 4>>)>> >>

(***************************************************************************)
(* Properties of upsert_clean (specification SpecStore).                   *)
(***************************************************************************)
\* the table as call k left it
TableAfter(k) == IF k < Len(upsert_log) THEN upsert_log[k + 1].before ELSE table_rows

Accepted(k) == upsert_log[k].outcome = "returned" /\ upsert_log[k].records # <<>>

\* C33: a call the store accepts leaves, for every record of the call,
\* a row of the record's id holding the record's value in every other
\* column, whether the id was absent or present, and leaves the other
\* rows alone; so v1 and then v2 of one id leave v2, and the same call
\* made again leaves the table as it was.
C33_LastWriteWins ==
    /\ \A k \in 1..Len(upsert_log) :
          LET call == upsert_log[k]
          IN  IF Accepted(k)
              THEN \A id \in StoreIds :
                      IF \E i \in 1..Len(call.records) : call.records[i].id = id
                      THEN \A i \in 1..Len(call.records) :
                              call.records[i].id = id =>
                                 /\ TableAfter(k)[id].amount = call.records[i].amount
                                 /\ TableAfter(k)[id].outcome = call.records[i].outcome
                      ELSE TableAfter(k)[id] = call.before[id]
              ELSE TableAfter(k) = call.before
    /\ \A k \in 1..(Len(upsert_log) - 1) :
          (Accepted(k) /\ Accepted(k + 1)) =>
             /\ \A i \in 1..Len(upsert_log[k].records), j \in 1..Len(upsert_log[k + 1].records) :
                   upsert_log[k].records[i].id = upsert_log[k + 1].records[j].id =>
                      TableAfter(k + 1)[upsert_log[k].records[i].id] =
                         [amount |-> upsert_log[k + 1].records[j].amount,
                          outcome |-> upsert_log[k + 1].records[j].outcome]
             /\ upsert_log[k].records = upsert_log[k + 1].records =>
                   TableAfter(k + 1) = TableAfter(k)

C33_Witness ==
    /\ Len(upsert_log) = 2
    /\ upsert_log[1].records = <<[id |-> 1, amount |-> 1, outcome |-> 1]>>
    /\ upsert_log[2].records = <<[id |-> 1, amount |-> 2, outcome |-> 2],
                                 [id |-> 2, amount |-> 1, outcome |-> 2]>>
    /\ upsert_log[2].before[1] = [amount |-> 1, outcome |-> 1]
    /\ table_rows[1] = [amount |-> 2, outcome |-> 2]
    /\ table_rows[2] = [amount |-> 1, outcome |-> 2]

(***************************************************************************)
(* The limit of run_users_stage (specification SpecUsers).                 *)
(***************************************************************************)
\* the users streamed, and the users handed over so far
Streamed == SumLen(user_chunks)
HandedOver == SumLen(handed)

\* C40: the users handed to the store are the first users of the stream,
\* each once; with a limit L their number never exceeds L, a chunk that
\* would cross L is cut to the L - total users that are left, and at the
\* end the total is min(L, users streamed); with no limit every streamed
\* user is handed over once.
C40_LimitRespected ==
    /\ total_users = HandedOver
    /\ Flatten(handed) = [k \in 1..HandedOver |-> [id |-> k]]
    /\ limit # NoLimit => HandedOver <= limit
    /\ \A k \in 1..Len(handed) :
          LET earlier == SumLen(SubSeq(handed, 1, k - 1))
          IN  /\ handed[k] # <<>>
              /\ IF limit # NoLimit /\ earlier + Len(user_chunks[k]) > limit
                 THEN /\ Len(handed[k]) = limit - earlier
                      /\ handed[k] = SubSeq(user_chunks[k], 1, limit - earlier)
                 ELSE handed[k] = user_chunks[k]
    /\ upc = "done" =>
          total_users = IF limit = NoLimit \/ Streamed <= limit THEN Streamed ELSE limit

C40_Witness ==
    /\ upc = "done"
    /\ limit = 4 /\ Streamed = 5
    /\ Len(user_chunks) = 2 /\ Len(user_chunks[1]) = 3
    /\ Len(handed) = 2 /\ Len(handed[2]) = 1
    /\ total_users = 4

(***************************************************************************)
(* The stage under a single failure (specification SpecStage).             *)
(***************************************************************************)
\* C34: whatever fails in one subject's harvest, one payload's
\* normalization or one record's write, run_bets_stage goes through every
\* chunk of the stream and reaches its completion: no error leaves it.
C34_NeverAbortsWholesale ==
    /\ bpc # "raised"
    /\ stage_error = "none"
    /\ bpc = "completed" => chunks_done = Len(stage_chunks)

====
